---- MODULE Spec2Model ----
(***************************************************************************)
(* Hull-White one-factor subsystem of gnanam-esg-modular:                  *)
(*   formulas.py  (B, instantaneous_forward_rate, A, theta)                *)
(*   pricing.py   (price_zcb, price_european_option_on_zcb, swaption)      *)
(*   model.py     (_calibrate_logic, calibrate, _simulate_logic)           *)
(*                                                                         *)
(* Numbers.  A Python float is modelled as a fixed-point integer with SC   *)
(* units per 1.0.  Time is measured in units of eps = 1e-5 years, the step *)
(* of the finite differences of formulas.py, so that t - eps, t and        *)
(* t + eps are distinct integers.  Log bond prices are kept in units of    *)
(* 1/(SC*YEAR), so that a rate in SC units times a time in eps units is a  *)
(* log price without rounding.                                             *)
(***************************************************************************)
EXTENDS Integers, Sequences, FiniteSets, TLC

VARIABLES
    \* ---- HullWhiteOneFactor._simulate_logic ----
    simPc,               \* "idle" | "loop" | "done" | "raised"
    calibrated_model,    \* the CalibratedHW1FModel handed to the call
    scenario_definition, \* [num_paths, time_horizon, dt]
    correlated_shocks,   \* caller-supplied array, rows x num_paths
    num_timesteps,
    time_grid,
    r0,
    paths,
    i,                   \* loop variable of the Euler loop
    simWrites,           \* rows written by the loop steps taken so far
    simResult,           \* the returned HW1FSimulationResult, or NoValue
    \* ---- pricing.price_european_swaption ----
    swPc,                \* "idle" | "dates" | "loop" | "done" | "raised"
    swaption,            \* the arguments of the call
    payment_dates,       \* the local fixed_payment_dates
    r_star,
    swaption_price,
    date_idx,            \* how many dates the decomposition loop has handled
    swInside,            \* the exception raised inside the try block, or "none"
    swOutcome,           \* what the call returned or raised, or NoValue
    \* ---- HullWhiteOneFactor.calibrate / _calibrate_logic ----
    calPc,               \* "idle" | "minimize" | "returned" | "done" | "raised"
    entry,               \* the method the caller invoked
    initial_zero_coupon_bond_pricer,
    market_swaptions,
    evals,               \* the objective evaluations minimize has made
    result,              \* the OptimizeResult minimize returned, or NoValue
    calOutcome,          \* what _calibrate_logic returned or raised, or NoValue
    callerOutcome,       \* what the caller of the entry method got, or NoValue
    \* ---- one CalibratedHW1FModel object and the calls that were handed it ----
    shared_model,        \* the fields of the object, or NoValue before it is built
    calls,               \* per call: its arguments, locals, position and outcome
    \* ---- a single call of formulas.B, price_zcb or price_european_option_on_zcb ----
    fn_call,             \* the function and its arguments, or NoValue
    fn_outcome,          \* what the call returned or raised, or NoValue
    fn_pricer_calls,     \* the maturities at which the call evaluated the curve pricer
    fn_trace,            \* the constructions and pricing calls the call made, in order
    \* ---- api-gateway: POST /run/hull_white_one_factor ----
    apiPc,               \* "idle" | "simulated" | "responded"
    api_req,             \* the HW1FSimulationRequest
    api_result,          \* what model.simulate returned
    api_response,        \* the HW1FSimulationResponse, or NoValue
    \* ---- RADFOrchestrator.run ----
    radfPc,              \* "idle" | stage | "resolve" | "execute" | ... | "returned" | "raised"
    radf_config,         \* self.config
    audit_log,           \* self.audit_log
    radf_stages,         \* the stage methods run() has called so far
    radf_raised,         \* the exception run() has caught, or "none"
    dependency_graph,    \* local of _resolve_dependencies: keys in order, deps
    visited,
    execution_order,
    visit_stack,         \* the active calls of visit, innermost last
    radf_cursor,         \* position of the running for-loop
    executed_models      \* local of _execute_models

calVars == <<calPc, entry, initial_zero_coupon_bond_pricer, market_swaptions,
             evals, result, calOutcome, callerOutcome>>

swVars == <<swPc, swaption, payment_dates, r_star, swaption_price, date_idx,
            swInside, swOutcome>>

simVars == <<simPc, calibrated_model, scenario_definition, correlated_shocks,
             num_timesteps, time_grid, r0, paths, i, simWrites, simResult>>

concVars == <<shared_model, calls>>

fnVars == <<fn_call, fn_outcome, fn_pricer_calls, fn_trace>>

apiVars == <<apiPc, api_req, api_result, api_response>>

radfVars == <<radfPc, radf_config, audit_log, radf_stages, radf_raised,
              dependency_graph, visited, execution_order, visit_stack,
              radf_cursor, executed_models>>

vars == <<simVars, swVars, calVars, concVars, fnVars, apiVars, radfVars>>

NoValue == [none |-> TRUE]

-----------------------------------------------------------------------------
(* Bounds of the model *)

MaxPaths    == 2     \* num_paths ranges over 1..MaxPaths
MaxHorizon  == 3     \* time_horizon ranges over 1..MaxHorizon quarters
MaxDt       == 2     \* dt ranges over 1..MaxDt quarters
MaxExpiry   == 3     \* expiry ranges over 1..MaxExpiry half years
MaxTenorEnd == 4     \* tenor_end ranges over 1..MaxTenorEnd half years
MaxSwaptions == 2    \* market_swaptions holds at most MaxSwaptions quotes
MaxEvals    == 2     \* minimize evaluates the objective at most MaxEvals times
ExpTerms    == 12    \* terms of the exponential series
LnTerms     == 6     \* terms of the logarithm series
MaxApiPaths == 11    \* num_paths of a request ranges over 1..MaxApiPaths
MaxApiSteps == 11    \* time_horizon / dt of a request ranges over 0..MaxApiSteps
MaxCalls    == 2     \* calls that hold the shared model at the same time

-----------------------------------------------------------------------------
(* Fixed-point arithmetic *)

SC      == 10^4          \* units per 1.0
YEAR    == 10^5          \* eps units per year (eps = 1e-5 years)
QUARTER == YEAR \div 4   \* the time step the scenarios are enumerated in
HALF    == YEAR \div 2   \* the time step the swaptions are enumerated in
eps     == 1             \* formulas.py: eps = 1e-5, the unit of time

Abs(x) == IF x < 0 THEN -x ELSE x
Sgn(x) == IF x < 0 THEN -1 ELSE IF x > 0 THEN 1 ELSE 0

\* x / y rounded toward zero, y # 0
Quot(x, y) == Sgn(x) * Sgn(y) * (Abs(x) \div Abs(y))

Mul(x, y) == Quot(x * y, SC)
Div(x, y) == Quot(x * SC, y)

\* time in eps units -> years in fixed point
Years(t) == Quot(t, YEAR \div SC)

RECURSIVE ExpSum(_, _, _)
ExpSum(x, k, term) ==
    IF k > ExpTerms THEN 0
    ELSE term + ExpSum(x, k + 1, Quot(term * x, k * SC))

\* the series at every argument of [-2.0, 2.0], evaluated once
ExpTable == [x \in -(2 * SC)..(2 * SC) |-> ExpSum(x, 1, SC)]

\* np.exp on fixed point; arguments beyond +-2.0 are saturated
Exp(x) ==
    LET c == IF x > 2 * SC THEN 2 * SC ELSE IF x < -2 * SC THEN -2 * SC ELSE x
    IN  ExpTable[c]

RECURSIVE SqrtSearch(_, _, _)
SqrtSearch(v, lo, hi) ==
    IF lo >= hi THEN lo
    ELSE LET mid == (lo + hi + 1) \div 2
         IN  IF mid * mid <= v THEN SqrtSearch(v, mid, hi)
             ELSE SqrtSearch(v, lo, mid - 1)

\* np.sqrt on fixed point, x >= 0
Sqrt(x) == SqrtSearch(x * SC, 0, 40000)

RECURSIVE AtanhSum(_, _, _)
AtanhSum(z2, k, term) ==
    IF k > LnTerms THEN 0
    ELSE Quot(term, 2 * k + 1) + AtanhSum(z2, k + 1, Mul(term, z2))

\* np.log on fixed point, x > 0: 2 * atanh((x - 1) / (x + 1))
Ln(x) ==
    LET z == Div(x - SC, x + SC)
    IN  2 * AtanhSum(Mul(z, z), 0, z)

\* scipy.stats.norm.cdf at 0.0, 0.1, ..., 4.0
PhiTable ==
    <<5000, 5398, 5793, 6179, 6554, 6915, 7257, 7580, 7881, 8159, 8413,
      8643, 8849, 9032, 9192, 9332, 9452, 9554, 9641, 9713, 9772, 9821,
      9861, 9893, 9918, 9938, 9953, 9965, 9974, 9981, 9987, 9990, 9993,
      9995, 9997, 9998, 9998, 9999, 9999, 10000, 10000>>

PhiStep == SC \div 10

\* norm.cdf for x >= 0, linear between the table's points
PhiPos(x) ==
    IF x >= 4 * SC THEN SC
    ELSE LET k == x \div PhiStep
             w == x % PhiStep
         IN  PhiTable[k + 1] + Quot((PhiTable[k + 2] - PhiTable[k + 1]) * w, PhiStep)

\* scipy.stats.norm.cdf on fixed point
NormCdf(x) == IF x >= 0 THEN PhiPos(x) ELSE SC - PhiPos(-x)

-----------------------------------------------------------------------------
(* The initial curve pricer: test fixture P(0,t) = exp(-rate * t),         *)
(* generalised by an intercept y0 = -ln P(0,0).                            *)

(* A pricer is an arbitrary callable: it may raise.  exc is the exception it *)
(* raises for maturities beyond domain_max ("none": it never raises), as an *)
(* interpolator that refuses to extrapolate does.                           *)

\* np.log(p0_pricer(t)) in log units, t in eps units
LnP(pricer, t) == -(pricer.y0 + pricer.rate * t)

\* p0_pricer(t) in fixed point
P0(pricer, t) == Exp(Quot(LnP(pricer, t), YEAR))

\* p0_pricer(t) raises instead of returning
PricerRaises(pricer, t) == pricer.exc # "none" /\ t > pricer.domain_max

TotalPricers == [y0 : {0}, rate : {300, 500}, domain_max : {0}, exc : {"none"}]

-----------------------------------------------------------------------------
(* formulas.py *)

instantaneous_forward_rate(t_val, p0_pricer) ==
    IF t_val < eps
    THEN Quot(-(LnP(p0_pricer, t_val + eps) - LnP(p0_pricer, t_val)), eps)
    ELSE Quot(-(LnP(p0_pricer, t_val + eps) - LnP(p0_pricer, t_val - eps)), 2 * eps)

\* closure returned by generate_theta_function: the captured variables
generate_theta_function(a, sigma, p0_pricer) ==
    [a |-> a, sigma |-> sigma, pricer |-> p0_pricer]

derivative_of_instantaneous_forward_rate(th, t_val) ==
    Quot((instantaneous_forward_rate(t_val + eps, th.pricer)
          - instantaneous_forward_rate(t_val - eps, th.pricer)) * YEAR, 2 * eps)

\* theta(t) of the closure th, t in eps units
theta(th, t) ==
    LET f_0_t  == instantaneous_forward_rate(t, th.pricer)
        df_0_t == derivative_of_instantaneous_forward_rate(th, t)
    IN  df_0_t + Mul(th.a, f_0_t)
        + Mul(Div(Mul(th.sigma, th.sigma), 2 * th.a),
              SC - Exp(Mul(-2 * th.a, Years(t))))

-----------------------------------------------------------------------------
(* data_structures.py *)

CalibratedHW1FModel(a, sigma, theta_function, calibration_error, pricer) ==
    [a |-> a, sigma |-> sigma, theta_function |-> theta_function,
     calibration_error |-> calibration_error,
     initial_zero_coupon_bond_pricer |-> pricer]

HW1FSimulationResult(p, g) == [paths |-> p, time_grid |-> g]

\* models handed to pricing and simulation, built as the test fixture does
FixtureModels ==
    { CalibratedHW1FModel(a, s, generate_theta_function(a, s, p), 0, p) :
        a \in {1000}, s \in {500}, p \in TotalPricers }

-----------------------------------------------------------------------------
(* formulas.py: B and A *)

\* a variant whose a = 0 branch returns T
BFromZero(t, T, a) ==
    IF a = 0 THEN Years(T)
    ELSE Div(SC - Exp(Mul(-a, Years(T - t))), a)

\* B(t, T, a) in years, fixed point
B(t, T, a) ==
    IF a = 0 THEN Years(T - t)
    ELSE Div(SC - Exp(Mul(-a, Years(T - t))), a)

A(t, T, calibrated) ==
    LET a     == calibrated.a
        sigma == calibrated.sigma
        P0T   == P0(calibrated.initial_zero_coupon_bond_pricer, T)
        P0t   == P0(calibrated.initial_zero_coupon_bond_pricer, t)
        f0t   == instantaneous_forward_rate(t, calibrated.initial_zero_coupon_bond_pricer)
        B_t_T == B(t, T, a)
        term  == Mul(B_t_T, f0t)
                 - Mul(Mul(Div(Mul(sigma, sigma), 4 * a),
                           SC - Exp(Mul(-2 * a, Years(t)))), B_t_T)
    IN  Mul(Div(P0T, P0t), Exp(term))

-----------------------------------------------------------------------------
(* pricing.py *)

price_zcb(t, T, r_t, calibrated) ==
    Mul(A(t, T, calibrated), Exp(-Mul(B(t, T, calibrated.a), r_t)))

\* a variant that always takes the central difference
ForwardRatePointsCentral(t_val) == {t_val + eps, t_val - eps}

\* the maturities at which instantaneous_forward_rate(t_val, .) calls the pricer
ForwardRatePoints(t_val) ==
    IF t_val < eps THEN {t_val + eps, t_val} ELSE {t_val + eps, t_val - eps}

\* formulas.py lines 47-58: the maturities at which theta(t) calls the pricer,
\* through instantaneous_forward_rate at t, t + eps and t - eps
ThetaPoints(t) ==
    ForwardRatePoints(t) \cup ForwardRatePoints(t + eps) \cup ForwardRatePoints(t - eps)

\* the maturities at which price_zcb(t, T, ., .) calls the pricer
ZcbPoints(t, T) == {T, t} \cup ForwardRatePoints(t)

\* line 42: sigma_p
OptionSigmaP(T, S, a, sigma) ==
    Mul(Mul(sigma, Sqrt(Div(SC - Exp(Mul(-2 * a, Years(T))), 2 * a))), B(T, S, a))

\* line 44: h
OptionH(K, P0S, P0T, sigma_p) ==
    Div(Ln(Div(P0S, Mul(P0T, K))) + Mul(SC \div 2, Mul(sigma_p, sigma_p)), sigma_p)

\* lines 46-49: the value for option_type "call", otherwise "put"
OptionValue(K, P0S, P0T, sigma_p, h, option_type) ==
    IF option_type = "call"
    THEN Mul(P0S, NormCdf(h)) - Mul(Mul(K, P0T), NormCdf(h - sigma_p))
    ELSE Mul(Mul(K, P0T), NormCdf(sigma_p - h)) - Mul(P0S, NormCdf(-h))

OptionFromSigmaP(K, P0S, P0T, sigma_p, option_type) ==
    OptionValue(K, P0S, P0T, sigma_p, OptionH(K, P0S, P0T, sigma_p), option_type)

\* price_european_option_on_zcb for option_type "call" or "put"
price_european_option_on_zcb(K, T, S, calibrated, option_type) ==
    OptionFromSigmaP(K, P0(calibrated.initial_zero_coupon_bond_pricer, S),
                     P0(calibrated.initial_zero_coupon_bond_pricer, T),
                     OptionSigmaP(T, S, calibrated.a, calibrated.sigma), option_type)

-----------------------------------------------------------------------------
(* pricing.py: price_european_swaption *)

\* np.arange(start, stop, step), step > 0
Arange(start, stop, step) ==
    LET n == IF stop <= start THEN 0 ELSE (stop - start + step - 1) \div step
    IN  [k \in 1..n |-> start + (k - 1) * step]

\* lines 78-83: the dates of the fixed leg that are later than expiry
fixed_payment_dates(q) ==
    LET all == Arange(q.tenor_start, q.tenor_end + q.fixed_frequency,
                      q.fixed_frequency)
        after(d) == d > q.expiry
    IN  SelectSeq(all, after)

RECURSIVE PvFixed(_, _, _, _)
PvFixed(q, dates, r, k) ==
    IF k > Len(dates) THEN 0
    ELSE Mul(Mul(Years(q.fixed_frequency), q.swap_rate),
             price_zcb(q.expiry, dates[k], r, q.calibrated_model))
         + PvFixed(q, dates, r, k + 1)

\* lines 94-105
swap_pv_at_expiry(q, dates, r) ==
    LET pv_fixed    == PvFixed(q, dates, r, 1)
        pv_floating == price_zcb(q.expiry, q.tenor_start, r, q.calibrated_model)
                       - price_zcb(q.expiry, q.tenor_end, r, q.calibrated_model)
    IN  pv_fixed - pv_floating

\* the maturities at which one evaluation of swap_pv_at_expiry calls the pricer
SwapPvPoints(q, dates) ==
    UNION { ZcbPoints(q.expiry, T) :
              T \in {dates[k] : k \in 1..Len(dates)} \cup {q.tenor_start, q.tenor_end} }

\* the exception an evaluation of swap_pv_at_expiry raises, "none" if it returns
SwapPvRaises(q, dates) ==
    LET pricer == q.calibrated_model.initial_zero_coupon_bond_pricer
    IN  IF \E t \in SwapPvPoints(q, dates) : PricerRaises(pricer, t)
        THEN pricer.exc ELSE "none"

RECURSIVE Bisect(_, _, _, _, _)
Bisect(q, dates, lo, hi, slo) ==
    IF hi - lo <= 1 THEN hi
    ELSE LET mid == (lo + hi) \div 2
             sm  == Sgn(swap_pv_at_expiry(q, dates, mid))
         IN  CASE sm = slo -> Bisect(q, dates, mid, hi, slo)
               [] sm = 0   -> mid
               [] OTHER    -> Bisect(q, dates, lo, mid, slo)

\* scipy.optimize.brentq(swap_pv_at_expiry, lo, hi): ValueError when f(lo) and
\* f(hi) have the same sign, otherwise a root inside [lo, hi]
BrentqFrom(q, dates, lo, hi, sa, sb) ==
    IF sa * sb > 0 THEN [exc |-> "ValueError", root |-> 0]
    ELSE IF sa = 0 THEN [exc |-> "none", root |-> lo]
    ELSE IF sb = 0 THEN [exc |-> "none", root |-> hi]
    ELSE [exc |-> "none", root |-> Bisect(q, dates, lo, hi, sa)]

brentq(q, dates, lo, hi) ==
    BrentqFrom(q, dates, lo, hi, Sgn(swap_pv_at_expiry(q, dates, lo)),
               Sgn(swap_pv_at_expiry(q, dates, hi)))

\* the bracket of line 113, -0.5 and 0.5
BracketLo == -(SC \div 2)
BracketHi == SC \div 2

\* lines 111-114: what the call of brentq does, the pricer's exceptions included
FindRoot(q, dates) ==
    IF SwapPvRaises(q, dates) # "none"
    THEN [exc |-> SwapPvRaises(q, dates), root |-> 0]
    ELSE brentq(q, dates, BracketLo, BracketHi)

\* a variant without the except clause
CaughtNothing(exc) == FALSE

\* the clause `except ValueError` of line 115
Caught(exc) == exc = "ValueError"

\* a variant that prices a put for the payer and a call for the receiver
LoopTermTypesSwapped(q, r, t_i) ==
    IF q.option_type \in {"payer", "receiver"}
    THEN [exc |-> "none",
          term |-> Mul(Mul(Years(q.fixed_frequency), q.swap_rate),
                       price_european_option_on_zcb(
                           price_zcb(q.expiry, t_i, r, q.calibrated_model),
                           q.expiry, t_i, q.calibrated_model,
                           IF q.option_type = "payer" THEN "put" ELSE "call"))]
    ELSE [exc |-> "ValueError", term |-> 0]

\* lines 123-158: the body of the loop for the date t_i
LoopTerm(q, r, t_i) ==
    LET delta_i    == Years(q.fixed_frequency)
        strike_zcb == price_zcb(q.expiry, t_i, r, q.calibrated_model)
    IN  IF q.option_type = "payer"
        THEN [exc |-> "none",
              term |-> Mul(Mul(delta_i, q.swap_rate),
                           price_european_option_on_zcb(strike_zcb, q.expiry, t_i,
                                                        q.calibrated_model, "call"))]
        ELSE IF q.option_type = "receiver"
        THEN [exc |-> "none",
              term |-> Mul(Mul(delta_i, q.swap_rate),
                           price_european_option_on_zcb(strike_zcb, q.expiry, t_i,
                                                        q.calibrated_model, "put"))]
        ELSE [exc |-> "ValueError", term |-> 0]

Returned(v) == [kind |-> "return", value |-> v, exc |-> "none"]
Raised(e)   == [kind |-> "raise", value |-> 0, exc |-> e]

RECURSIVE Decompose(_, _, _, _, _)
Decompose(q, dates, r, k, acc) ==
    IF k > Len(dates) THEN Returned(acc)
    ELSE LET step == LoopTerm(q, r, dates[k])
         IN  IF step.exc # "none" THEN Raised(step.exc)
             ELSE Decompose(q, dates, r, k + 1, acc + step.term)

\* lines 111-160: the try block and what follows it
AfterRoot(q, dates, found) ==
    IF found.exc # "none"
    THEN (IF Caught(found.exc) THEN Returned(0) ELSE Raised(found.exc))
    ELSE Decompose(q, dates, found.root, 1, 0)

\* lines 85-160
AfterDates(q, dates) ==
    IF Len(dates) = 0 THEN Returned(0) ELSE AfterRoot(q, dates, FindRoot(q, dates))

\* the whole function: what a call returns or raises
price_european_swaption(q) == AfterDates(q, fixed_payment_dates(q))

-----------------------------------------------------------------------------
(* model.py: _simulate_logic *)

\* a variant that rounds the quotient up
NumTimestepsRoundedUp(time_horizon, dt) == Quot(time_horizon + dt - 1, dt) + 1

\* int(time_horizon / dt) + 1
NumTimesteps(time_horizon, dt) == Quot(time_horizon, dt) + 1

\* np.linspace(0, time_horizon, num): num points, the last one time_horizon
Linspace(stop, num) ==
    [k \in 1..num |-> IF num = 1 THEN 0 ELSE Quot((k - 1) * stop, num - 1)]

\* np.zeros((rows, cols))
Zeros(rows, cols) == [r \in 1..rows |-> [c \in 1..cols |-> 0]]

ShockValues == {-SC, SC}

Scenarios ==
    [num_paths : 1..MaxPaths,
     time_horizon : {h * QUARTER : h \in 1..MaxHorizon},
     dt : {d * QUARTER : d \in 1..MaxDt}]

\* lines 141-163: everything before the loop
Simulate ==
    /\ simPc = "idle"
    /\ \E m \in FixtureModels, sc \in Scenarios :
         LET n  == NumTimesteps(sc.time_horizon, sc.dt)
             rr == instantaneous_forward_rate(eps, m.initial_zero_coupon_bond_pricer)
         IN  \E rows \in {k \in {n - 2, n - 1, n} : k >= 0} :
             \E sh \in [1..rows -> [1..sc.num_paths -> ShockValues]] :
                /\ calibrated_model' = m
                /\ scenario_definition' = sc
                /\ correlated_shocks' = sh
                /\ num_timesteps' = n
                /\ time_grid' = Linspace(sc.time_horizon, n)
                /\ r0' = rr
                /\ paths' = [Zeros(n, sc.num_paths) EXCEPT
                               ![1] = [c \in 1..sc.num_paths |-> rr]]
                /\ i' = 0
                /\ simWrites' = {}
                /\ simPc' = "loop"
                /\ UNCHANGED <<simResult, swVars, calVars, concVars, fnVars, apiVars, radfVars>>

\* a variant that floors the new rates at zero
EulerRowFloored(m, sc, t, r_t, dW_t) ==
    [c \in 1..Len(r_t) |->
        LET drift == Mul(theta(m.theta_function, t) - Mul(m.a, r_t[c]), Years(sc.dt))
            stochastic == Mul(Mul(m.sigma, Sqrt(Years(sc.dt))), dW_t[c])
        IN  IF r_t[c] + drift + stochastic < 0 THEN 0
            ELSE r_t[c] + drift + stochastic]

\* the row the loop body computes from row i (0-based)
EulerRow(m, sc, t, r_t, dW_t) ==
    [c \in 1..Len(r_t) |->
        LET drift == Mul(theta(m.theta_function, t) - Mul(m.a, r_t[c]), Years(sc.dt))
            stochastic == Mul(Mul(m.sigma, Sqrt(Years(sc.dt))), dW_t[c])
        IN  r_t[c] + drift + stochastic]

\* a variant that stores the new rates in the row they were computed from
WrittenRowInPlace(k) == k

\* line 173: the row (0-based) that iteration k assigns, paths[k + 1, :]
WrittenRow(k) == k + 1

\* lines 165-173: one iteration of `for i in range(num_timesteps - 1)`
SimStep ==
    /\ simPc = "loop"
    /\ i < num_timesteps - 1
    /\ i + 1 <= Len(correlated_shocks)
    /\ paths' = [paths EXCEPT ![WrittenRow(i) + 1] =
                    EulerRow(calibrated_model, scenario_definition,
                             time_grid[i + 1], paths[i + 1], correlated_shocks[i + 1])]
    /\ simWrites' = simWrites \cup {WrittenRow(i)}
    /\ i' = i + 1
    /\ UNCHANGED <<simPc, calibrated_model, scenario_definition, correlated_shocks,
                   num_timesteps, time_grid, r0, simResult, swVars, calVars, concVars, fnVars, apiVars, radfVars>>

\* correlated_shocks[i, :] with i beyond the rows supplied: IndexError
SimRaise ==
    /\ simPc = "loop"
    /\ i < num_timesteps - 1
    /\ i + 1 > Len(correlated_shocks)
    /\ simPc' = "raised"
    /\ UNCHANGED <<calibrated_model, scenario_definition, correlated_shocks,
                   num_timesteps, time_grid, r0, paths, i, simWrites, simResult,
                   swVars, calVars, concVars, fnVars, apiVars, radfVars>>

\* line 175
SimReturn ==
    /\ simPc = "loop"
    /\ i >= num_timesteps - 1
    /\ simResult' = HW1FSimulationResult(paths, time_grid)
    /\ simPc' = "done"
    /\ UNCHANGED <<calibrated_model, scenario_definition, correlated_shocks,
                   num_timesteps, time_grid, r0, paths, i, simWrites, swVars, calVars, concVars, fnVars, apiVars, radfVars>>

SimInit ==
    /\ simPc = "idle"
    /\ calibrated_model = NoValue
    /\ scenario_definition = NoValue
    /\ correlated_shocks = <<>>
    /\ num_timesteps = 0
    /\ time_grid = <<>>
    /\ r0 = 0
    /\ paths = <<>>
    /\ i = 0
    /\ simWrites = {}
    /\ simResult = NoValue

-----------------------------------------------------------------------------
(* pricing.py: price_european_swaption, statement by statement *)

\* pricers that raise beyond the maturity domain_max
PartialPricers ==
    [y0 : {0}, rate : {500}, domain_max : {3 * HALF},
     exc : {"ValueError", "FloatingPointError"}]

PricingModels ==
    { CalibratedHW1FModel(a, s, generate_theta_function(a, s, p), 0, p) :
        a \in {1000}, s \in {2000},
        p \in {q \in TotalPricers : q.rate = 500} \cup PartialPricers }

OptionTypes == {"payer", "receiver", "straddle"}

SwaptionCalls ==
    [swap_rate : {-500, 500, 1000},
     expiry : {e * HALF : e \in 1..MaxExpiry},
     tenor_start : {HALF, 2 * HALF},
     tenor_end : {e * HALF : e \in 1..MaxTenorEnd},
     fixed_frequency : {HALF, 2 * HALF},
     calibrated_model : PricingModels,
     option_type : OptionTypes]

\* lines 78-83
SwCall ==
    /\ swPc = "idle"
    /\ \E q \in SwaptionCalls :
         /\ swaption' = q
         /\ payment_dates' = fixed_payment_dates(q)
    /\ swPc' = "dates"
    /\ UNCHANGED <<r_star, swaption_price, date_idx, swInside, swOutcome, simVars, calVars, concVars, fnVars, apiVars, radfVars>>

\* lines 85-86: no payment after expiry
SwNoDates ==
    /\ swPc = "dates"
    /\ Len(payment_dates) = 0
    /\ swOutcome' = Returned(0)
    /\ swPc' = "done"
    /\ UNCHANGED <<swaption, payment_dates, r_star, swaption_price, date_idx,
                   swInside, simVars, calVars, concVars, fnVars, apiVars, radfVars>>

\* lines 111-114: brentq returns the critical rate
SwRootFound ==
    /\ swPc = "dates"
    /\ Len(payment_dates) > 0
    /\ LET found == FindRoot(swaption, payment_dates)
       IN  /\ found.exc = "none"
           /\ r_star' = found.root
    /\ swaption_price' = 0
    /\ date_idx' = 0
    /\ swPc' = "loop"
    /\ UNCHANGED <<swaption, payment_dates, swInside, swOutcome, simVars, calVars, concVars, fnVars, apiVars, radfVars>>

\* lines 115-118: an exception of the try block that the except clause catches
SwRootCaught ==
    /\ swPc = "dates"
    /\ Len(payment_dates) > 0
    /\ LET found == FindRoot(swaption, payment_dates)
       IN  /\ found.exc # "none"
           /\ Caught(found.exc)
           /\ swInside' = IF SwapPvRaises(swaption, payment_dates) # "none"
                          THEN "pricer" ELSE "brentq"
    /\ swOutcome' = Returned(0)
    /\ swPc' = "done"
    /\ UNCHANGED <<swaption, payment_dates, r_star, swaption_price, date_idx, simVars, calVars, concVars, fnVars, apiVars, radfVars>>

\* an exception of the try block that the except clause lets through
SwRootRaises ==
    /\ swPc = "dates"
    /\ Len(payment_dates) > 0
    /\ LET found == FindRoot(swaption, payment_dates)
       IN  /\ found.exc # "none"
           /\ ~Caught(found.exc)
           /\ swOutcome' = Raised(found.exc)
    /\ swInside' = "pricer"
    /\ swPc' = "raised"
    /\ UNCHANGED <<swaption, payment_dates, r_star, swaption_price, date_idx, simVars, calVars, concVars, fnVars, apiVars, radfVars>>

\* lines 122-158: one iteration of `for t_i in fixed_payment_dates`
SwLoopStep ==
    /\ swPc = "loop"
    /\ date_idx < Len(payment_dates)
    /\ LET step == LoopTerm(swaption, r_star, payment_dates[date_idx + 1])
       IN  /\ step.exc = "none"
           /\ swaption_price' = swaption_price + step.term
    /\ date_idx' = date_idx + 1
    /\ UNCHANGED <<swPc, swaption, payment_dates, r_star, swInside, swOutcome, simVars, calVars, concVars, fnVars, apiVars, radfVars>>

\* lines 157-158: the else branch of the loop body
SwLoopRaises ==
    /\ swPc = "loop"
    /\ date_idx < Len(payment_dates)
    /\ LET step == LoopTerm(swaption, r_star, payment_dates[date_idx + 1])
       IN  /\ step.exc # "none"
           /\ swOutcome' = Raised(step.exc)
    /\ swPc' = "raised"
    /\ UNCHANGED <<swaption, payment_dates, r_star, swaption_price, date_idx,
                   swInside, simVars, calVars, concVars, fnVars, apiVars, radfVars>>

\* line 160
SwReturn ==
    /\ swPc = "loop"
    /\ date_idx = Len(payment_dates)
    /\ swOutcome' = Returned(swaption_price)
    /\ swPc' = "done"
    /\ UNCHANGED <<swaption, payment_dates, r_star, swaption_price, date_idx,
                   swInside, simVars, calVars, concVars, fnVars, apiVars, radfVars>>

SwInit ==
    /\ swPc = "idle"
    /\ swaption = NoValue
    /\ payment_dates = <<>>
    /\ r_star = 0
    /\ swaption_price = 0
    /\ date_idx = 0
    /\ swInside = "none"
    /\ swOutcome = NoValue

SwNext ==
    \/ SwCall \/ SwNoDates \/ SwRootFound \/ SwRootCaught \/ SwRootRaises
    \/ SwLoopStep \/ SwLoopRaises \/ SwReturn

-----------------------------------------------------------------------------
(* model.py: _calibrate_logic and calibrate *)

\* np.inf
Inf == 2^30

\* line 106: initial_guess = [0.1, 0.01]
initial_guess == [a |-> SC \div 10, sigma |-> SC \div 100]

\* a variant without lower bounds: every candidate point may be tried
unbounded == [a |-> -Inf, sigma |-> -Inf]

\* line 107: bounds = ((1e-5, None), (1e-5, None)); the lower bounds are the
\* smallest positive number of the fixed point
bounds == [a |-> 1, sigma |-> 1]

\* swaption.get("option_type", "payer")
GetOptionType(quote) ==
    IF "option_type" \in DOMAIN quote THEN quote.option_type ELSE "payer"

\* lines 91-101: the call of pricing.price_european_swaption for one quote
QuoteCall(quote, temp_calibrated_model) ==
    [swap_rate |-> quote.swap_rate, expiry |-> quote.expiry,
     tenor_start |-> quote.tenor_start, tenor_end |-> quote.tenor_end,
     fixed_frequency |-> quote.fixed_frequency,
     calibrated_model |-> temp_calibrated_model,
     option_type |-> GetOptionType(quote)]

\* a variant that adds the absolute error
AbsoluteError(model_price, market_price) == Abs(model_price - market_price)

\* line 102: (model_price - swaption["market_price"]) ** 2, in units 1/SC^2
SquaredError(model_price, market_price) ==
    (model_price - market_price) * (model_price - market_price)

RECURSIVE TotalError(_, _, _, _)
RECURSIVE AddError(_, _, _, _, _)

\* lines 80-102: the loop over market_swaptions, from the k-th quote on
TotalError(quotes, temp_calibrated_model, k, total_error) ==
    IF k > Len(quotes) THEN [exc |-> "none", value |-> total_error]
    ELSE AddError(quotes, temp_calibrated_model, k, total_error,
                  price_european_swaption(QuoteCall(quotes[k], temp_calibrated_model)))

\* line 102 for the k-th quote, priced being what the pricing call did
AddError(quotes, temp_calibrated_model, k, total_error, priced) ==
    IF priced.kind = "raise" THEN [exc |-> priced.exc, value |-> 0]
    ELSE TotalError(quotes, temp_calibrated_model, k + 1,
                    total_error + SquaredError(priced.value, quotes[k].market_price))

\* a variant that generates the theta function once, from the initial guess,
\* outside the objective
TempModelHoistedTheta(params, pricer) ==
    CalibratedHW1FModel(params.a, params.sigma,
                        generate_theta_function(initial_guess.a, initial_guess.sigma,
                                                pricer),
                        0, pricer)

\* lines 76-87: the temporary model of one evaluation of the objective
TempCalibratedModel(params, pricer) ==
    CalibratedHW1FModel(params.a, params.sigma,
                        generate_theta_function(params.a, params.sigma, pricer),
                        0, pricer)

\* lines 70-103
objective_function(params, pricer, quotes) ==
    IF params.a <= 0 \/ params.sigma <= 0 THEN [exc |-> "none", value |-> Inf]
    ELSE TotalError(quotes, TempCalibratedModel(params, pricer), 1, 0)

\* the points an optimizer may try
CandidatePoints == [a : {-1000, 0, 500, 1000}, sigma : {0, 100, 2000}]

\* scipy.optimize.minimize with method L-BFGS-B evaluates the objective only
\* at points that satisfy the bounds it is given
TrialPoints(bnds) ==
    {x \in CandidatePoints : x.a >= bnds.a /\ x.sigma >= bnds.sigma}

\* OptimizeResult.message
Messages == {"CONVERGENCE: NORM_OF_PROJECTED_GRADIENT_<=_PGTOL",
             "ABNORMAL_TERMINATION_IN_LNSRCH"}

Quotes ==
    { [swap_rate |-> 500, expiry |-> HALF, tenor_start |-> HALF,
       tenor_end |-> 4 * HALF, fixed_frequency |-> 2 * HALF, market_price |-> 60],
      [swap_rate |-> 1000, expiry |-> HALF, tenor_start |-> 2 * HALF,
       tenor_end |-> 4 * HALF, fixed_frequency |-> 2 * HALF, market_price |-> 250,
       option_type |-> "receiver"],
      [swap_rate |-> 500, expiry |-> 2 * HALF, tenor_start |-> HALF,
       tenor_end |-> 3 * HALF, fixed_frequency |-> 2 * HALF, market_price |-> 10,
       option_type |-> "straddle"] }

RECURSIVE SeqsUpTo(_, _)
SeqsUpTo(S, n) ==
    IF n = 0 THEN {<<>>}
    ELSE LET shorter == SeqsUpTo(S, n - 1)
         IN  shorter \cup {Append(q, x) : q \in shorter, x \in S}

CalReturned(m) == [kind |-> "return", model |-> m, exc |-> "none", message |-> <<>>]
CalRaised(e, msg) == [kind |-> "raise", model |-> NoValue, exc |-> e, message |-> msg]

\* lines 49-65: _load_and_prepare_data returns the interpolated curve and []
LoadedSwaptions == <<>>

\* the caller invokes calibrate() (lines 129-133) or _calibrate_logic directly
CalStart ==
    /\ calPc = "idle"
    /\ \E e \in {"calibrate", "_calibrate_logic"}, p \in TotalPricers,
          ms \in SeqsUpTo(Quotes, MaxSwaptions) :
         /\ e = "calibrate" => ms = LoadedSwaptions
         /\ entry' = e
         /\ initial_zero_coupon_bond_pricer' = p
         /\ market_swaptions' = ms
    /\ evals' = <<>>
    /\ calPc' = "minimize"
    /\ UNCHANGED <<result, calOutcome, callerOutcome, simVars, swVars, concVars, fnVars, apiVars, radfVars>>

\* minimize calls objective_function; the first point is initial_guess
CalEvaluate ==
    /\ calPc = "minimize"
    /\ Len(evals) < MaxEvals
    /\ \E x \in TrialPoints(bounds) :
         /\ Len(evals) = 0 => x = initial_guess
         /\ LET f == objective_function(x, initial_zero_coupon_bond_pricer,
                                        market_swaptions)
            IN  /\ f.exc = "none"
                /\ evals' = Append(evals,
                      [x |-> x, fun |-> f.value,
                       model |-> IF x.a <= 0 \/ x.sigma <= 0 THEN NoValue
                                 ELSE TempCalibratedModel(
                                          x, initial_zero_coupon_bond_pricer)])
    /\ UNCHANGED <<calPc, entry, initial_zero_coupon_bond_pricer, market_swaptions,
                   result, calOutcome, callerOutcome, simVars, swVars, concVars, fnVars, apiVars, radfVars>>

\* an exception of objective_function leaves minimize and _calibrate_logic
CalObjectiveRaises ==
    /\ calPc = "minimize"
    /\ Len(evals) < MaxEvals
    /\ \E x \in TrialPoints(bounds) :
         /\ Len(evals) = 0 => x = initial_guess
         /\ LET f == objective_function(x, initial_zero_coupon_bond_pricer,
                                        market_swaptions)
            IN  /\ f.exc # "none"
                /\ calOutcome' = CalRaised(f.exc, <<>>)
    /\ calPc' = "raised"
    /\ UNCHANGED <<entry, initial_zero_coupon_bond_pricer, market_swaptions, evals,
                   result, callerOutcome, simVars, swVars, concVars, fnVars, apiVars, radfVars>>

\* lines 109-111: minimize returns one of the points it evaluated
CalMinimizeReturns ==
    /\ calPc = "minimize"
    /\ \E k \in 1..Len(evals), ok \in BOOLEAN, msg \in Messages :
         result' = [success |-> ok, x |-> evals[k].x, fun |-> evals[k].fun,
                    message |-> msg]
    /\ calPc' = "returned"
    /\ UNCHANGED <<entry, initial_zero_coupon_bond_pricer, market_swaptions, evals,
                   calOutcome, callerOutcome, simVars, swVars, concVars, fnVars, apiVars, radfVars>>

\* a variant without the test of result.success: the model is returned anyway
CalIgnoresFailure ==
    /\ calPc = "returned"
    /\ ~result.success
    /\ calOutcome' =
         CalReturned(CalibratedHW1FModel(
             result.x.a, result.x.sigma,
             generate_theta_function(result.x.a, result.x.sigma,
                                     initial_zero_coupon_bond_pricer),
             result.fun, initial_zero_coupon_bond_pricer))
    /\ calPc' = "done"
    /\ UNCHANGED <<entry, initial_zero_coupon_bond_pricer, market_swaptions, evals,
                   result, callerOutcome, simVars, swVars, concVars, fnVars, apiVars, radfVars>>

\* lines 113-114
CalFails ==
    /\ calPc = "returned"
    /\ ~result.success
    /\ calOutcome' = CalRaised("RuntimeError", <<"Calibration failed: ", result.message>>)
    /\ calPc' = "raised"
    /\ UNCHANGED <<entry, initial_zero_coupon_bond_pricer, market_swaptions, evals,
                   result, callerOutcome, simVars, swVars, concVars, fnVars, apiVars, radfVars>>

\* a variant that keeps the theta function of the initial guess
CalSucceedsStaleTheta ==
    /\ calPc = "returned"
    /\ result.success
    /\ calOutcome' =
         CalReturned(CalibratedHW1FModel(
             result.x.a, result.x.sigma,
             generate_theta_function(initial_guess.a, initial_guess.sigma,
                                     initial_zero_coupon_bond_pricer),
             result.fun, initial_zero_coupon_bond_pricer))
    /\ calPc' = "done"
    /\ UNCHANGED <<entry, initial_zero_coupon_bond_pricer, market_swaptions, evals,
                   result, callerOutcome, simVars, swVars, concVars, fnVars, apiVars, radfVars>>

\* lines 116-127
CalSucceeds ==
    /\ calPc = "returned"
    /\ result.success
    /\ LET calibrated_a     == result.x.a
           calibrated_sigma == result.x.sigma
           final_theta_func ==
               generate_theta_function(calibrated_a, calibrated_sigma,
                                       initial_zero_coupon_bond_pricer)
       IN  calOutcome' =
             CalReturned(CalibratedHW1FModel(calibrated_a, calibrated_sigma,
                                             final_theta_func, result.fun,
                                             initial_zero_coupon_bond_pricer))
    /\ calPc' = "done"
    /\ UNCHANGED <<entry, initial_zero_coupon_bond_pricer, market_swaptions, evals,
                   result, callerOutcome, simVars, swVars, concVars, fnVars, apiVars, radfVars>>

\* line 133 (calibrate returns what _calibrate_logic returns, and handles no
\* exception) or the direct caller of _calibrate_logic
CalReachesCaller ==
    /\ calPc \in {"done", "raised"}
    /\ callerOutcome = NoValue
    /\ callerOutcome' = calOutcome
    /\ UNCHANGED <<calPc, entry, initial_zero_coupon_bond_pricer, market_swaptions,
                   evals, result, calOutcome, simVars, swVars, concVars, fnVars, apiVars, radfVars>>

CalInit ==
    /\ calPc = "idle"
    /\ entry = "none"
    /\ initial_zero_coupon_bond_pricer = NoValue
    /\ market_swaptions = <<>>
    /\ evals = <<>>
    /\ result = NoValue
    /\ calOutcome = NoValue
    /\ callerOutcome = NoValue

CalNext ==
    \/ CalStart \/ CalEvaluate \/ CalObjectiveRaises \/ CalMinimizeReturns
    \/ CalFails \/ CalSucceeds \/ CalReachesCaller

-----------------------------------------------------------------------------
(* One CalibratedHW1FModel object handed to several calls of pricing.py and  *)
(* of _simulate_logic.  A call is a thread of its caller; a step is a        *)
(* stretch of the function between two reads of the object, and every read   *)
(* of calibrated_model.<field> is taken from shared_model as it is then.     *)

CallIds == 1..MaxCalls

\* the object as calibration or a test fixture builds it
SharedModels ==
    { CalibratedHW1FModel(a, s, generate_theta_function(a, s, p), 0, p) :
        a \in {1000}, s \in {500, 2000}, p \in {q \in TotalPricers : q.rate = 500} }

ZcbArgs == [t : {HALF}, T : {2 * HALF}, r_t : {500}]

OptionArgs == [K : {9000}, T : {HALF}, S : {2 * HALF}, option_type : {"call", "put"}]

SharedSwaptionArgs ==
    [swap_rate : {500}, expiry : {HALF}, tenor_start : {HALF},
     tenor_end : {3 * HALF}, fixed_frequency : {HALF},
     option_type : {"payer", "receiver"}]

SimulateArgs ==
    [scenario_definition : {[num_paths |-> 1, time_horizon |-> 2 * QUARTER,
                             dt |-> QUARTER]},
     correlated_shocks : {<< <<SC>>, <<-SC>> >>, << <<-SC>>, <<-SC>> >>}]

\* the arguments of a price_european_swaption call on the object m
WithModel(args, m) ==
    [swap_rate |-> args.swap_rate, expiry |-> args.expiry,
     tenor_start |-> args.tenor_start, tenor_end |-> args.tenor_end,
     fixed_frequency |-> args.fixed_frequency, calibrated_model |-> m,
     option_type |-> args.option_type]

IdleCall ==
    [op |-> "none", pc |-> "idle", args |-> NoValue, at_entry |-> NoValue,
     locals |-> NoValue, dates |-> <<>>, r_star |-> 0, acc |-> 0, idx |-> 0,
     paths |-> <<>>, time_grid |-> <<>>, outcome |-> NoValue]

\* call c moves to `new`; the other calls stay where they are
StepOf(c, new) == [calls EXCEPT ![c] = new]

\* a call that begins: its arguments, and the object as it is at entry
Entered(op, args, pc) ==
    [IdleCall EXCEPT !.op = op, !.args = args, !.pc = pc, !.at_entry = shared_model]

\* the object is constructed, once
BuildModel ==
    /\ shared_model = NoValue
    /\ shared_model' \in SharedModels
    /\ UNCHANGED <<calls, simVars, swVars, calVars, fnVars, apiVars, radfVars>>

\* a variant of price_zcb that keeps its last result in the object
CallZcbKeepsResult(c) ==
    /\ shared_model # NoValue
    /\ calls[c].pc = "idle"
    /\ \E args \in ZcbArgs :
         /\ calls' = StepOf(c, [Entered("price_zcb", args, "done") EXCEPT
                      !.outcome = Returned(price_zcb(args.t, args.T, args.r_t,
                                                     shared_model))])
         /\ shared_model' = [shared_model EXCEPT !.calibration_error =
                                price_zcb(args.t, args.T, args.r_t, shared_model)]
    /\ UNCHANGED <<simVars, swVars, calVars, fnVars, apiVars, radfVars>>

\* pricing.py lines 8-16
CallZcb(c) ==
    /\ shared_model # NoValue
    /\ calls[c].pc = "idle"
    /\ \E args \in ZcbArgs :
         calls' = StepOf(c, [Entered("price_zcb", args, "done") EXCEPT
                      !.outcome = Returned(price_zcb(args.t, args.T, args.r_t,
                                                     shared_model))])
    /\ UNCHANGED <<shared_model, simVars, swVars, calVars, fnVars, apiVars, radfVars>>

\* pricing.py lines 19-52
CallOption(c) ==
    /\ shared_model # NoValue
    /\ calls[c].pc = "idle"
    /\ \E args \in OptionArgs :
         calls' = StepOf(c, [Entered("price_european_option_on_zcb", args, "done")
                      EXCEPT !.outcome =
                        Returned(price_european_option_on_zcb(
                            args.K, args.T, args.S, shared_model, args.option_type))])
    /\ UNCHANGED <<shared_model, simVars, swVars, calVars, fnVars, apiVars, radfVars>>

\* pricing.py lines 78-83
CallSwaption(c) ==
    /\ shared_model # NoValue
    /\ calls[c].pc = "idle"
    /\ \E args \in SharedSwaptionArgs :
         calls' = StepOf(c, [Entered("price_european_swaption", args, "dates") EXCEPT
                      !.dates = fixed_payment_dates(WithModel(args, shared_model))])
    /\ UNCHANGED <<shared_model, simVars, swVars, calVars, fnVars, apiVars, radfVars>>

\* what lines 85-118 leave call c as, found being what the try block did
SwaptionAfterRoot(c, found) ==
    IF Len(calls[c].dates) = 0
    THEN [calls[c] EXCEPT !.pc = "done", !.outcome = Returned(0)]
    ELSE IF found.exc = "none"
    THEN [calls[c] EXCEPT !.pc = "loop", !.r_star = found.root]
    ELSE IF Caught(found.exc)
    THEN [calls[c] EXCEPT !.pc = "done", !.outcome = Returned(0)]
    ELSE [calls[c] EXCEPT !.pc = "raised", !.outcome = Raised(found.exc)]

\* pricing.py lines 85-118
SwaptionRoot(c) ==
    /\ calls[c].pc = "dates"
    /\ calls' = StepOf(c, SwaptionAfterRoot(c,
                    FindRoot(WithModel(calls[c].args, shared_model), calls[c].dates)))
    /\ UNCHANGED <<shared_model, simVars, swVars, calVars, fnVars, apiVars, radfVars>>

\* what one iteration of lines 122-158 leaves call c as
SwaptionAfterTerm(c, step) ==
    IF step.exc = "none"
    THEN [calls[c] EXCEPT !.acc = @ + step.term, !.idx = @ + 1]
    ELSE [calls[c] EXCEPT !.pc = "raised", !.outcome = Raised(step.exc)]

\* pricing.py lines 122-158, one iteration
SwaptionTerm(c) ==
    /\ calls[c].pc = "loop"
    /\ calls[c].idx < Len(calls[c].dates)
    /\ calls' = StepOf(c, SwaptionAfterTerm(c,
                    LoopTerm(WithModel(calls[c].args, shared_model), calls[c].r_star,
                             calls[c].dates[calls[c].idx + 1])))
    /\ UNCHANGED <<shared_model, simVars, swVars, calVars, fnVars, apiVars, radfVars>>

\* pricing.py line 160
SwaptionReturn(c) ==
    /\ calls[c].pc = "loop"
    /\ calls[c].idx = Len(calls[c].dates)
    /\ calls' = StepOf(c, [calls[c] EXCEPT !.pc = "done",
                                           !.outcome = Returned(calls[c].acc)])
    /\ UNCHANGED <<shared_model, simVars, swVars, calVars, fnVars, apiVars, radfVars>>

\* model.py lines 141-146: the fields of the object the simulation copies into
\* local names, once, before anything else
SimLocals(m) ==
    [a |-> m.a, sigma |-> m.sigma, theta_function |-> m.theta_function,
     initial_zero_coupon_bond_pricer |-> m.initial_zero_coupon_bond_pricer]

\* model.py lines 152-163: the paths array with its first row set to r0
InitialPaths(sc, pricer) ==
    [Zeros(NumTimesteps(sc.time_horizon, sc.dt), sc.num_paths) EXCEPT
        ![1] = [j \in 1..sc.num_paths |-> instantaneous_forward_rate(eps, pricer)]]

\* model.py lines 141-163
CallSimulate(c) ==
    /\ shared_model # NoValue
    /\ calls[c].pc = "idle"
    /\ \E args \in SimulateArgs :
         calls' = StepOf(c, [Entered("_simulate_logic", args, "simloop") EXCEPT
              !.locals = SimLocals(shared_model),
              !.time_grid = Linspace(args.scenario_definition.time_horizon,
                                     NumTimesteps(args.scenario_definition.time_horizon,
                                                  args.scenario_definition.dt)),
              !.paths = InitialPaths(args.scenario_definition,
                                     shared_model.initial_zero_coupon_bond_pricer)])
    /\ UNCHANGED <<shared_model, simVars, swVars, calVars, fnVars, apiVars, radfVars>>

\* a variant of the simulation that reads sigma from the object at every
\* iteration and leaves it there scaled by sqrt(dt)
SimulateStepScalesSigma(c) ==
    /\ calls[c].pc = "simloop"
    /\ calls[c].idx < Len(calls[c].paths) - 1
    /\ calls' = StepOf(c, [calls[c] EXCEPT
              !.paths[calls[c].idx + 2] =
                  EulerRow(calls[c].locals, calls[c].args.scenario_definition,
                           calls[c].time_grid[calls[c].idx + 1],
                           calls[c].paths[calls[c].idx + 1],
                           calls[c].args.correlated_shocks[calls[c].idx + 1]),
              !.idx = @ + 1])
    /\ shared_model' = [shared_model EXCEPT !.sigma =
            Mul(@, Sqrt(Years(calls[c].args.scenario_definition.dt)))]
    /\ UNCHANGED <<simVars, swVars, calVars, fnVars, apiVars, radfVars>>

\* model.py lines 165-173, one iteration, on the call's own arrays and locals
SimulateStep(c) ==
    /\ calls[c].pc = "simloop"
    /\ calls[c].idx < Len(calls[c].paths) - 1
    /\ calls' = StepOf(c, [calls[c] EXCEPT
              !.paths[calls[c].idx + 2] =
                  EulerRow(calls[c].locals, calls[c].args.scenario_definition,
                           calls[c].time_grid[calls[c].idx + 1],
                           calls[c].paths[calls[c].idx + 1],
                           calls[c].args.correlated_shocks[calls[c].idx + 1]),
              !.idx = @ + 1])
    /\ UNCHANGED <<shared_model, simVars, swVars, calVars, fnVars, apiVars, radfVars>>

\* model.py line 175
SimulateReturn(c) ==
    /\ calls[c].pc = "simloop"
    /\ calls[c].idx = Len(calls[c].paths) - 1
    /\ calls' = StepOf(c, [calls[c] EXCEPT !.pc = "done",
              !.outcome = Returned(HW1FSimulationResult(calls[c].paths,
                                                        calls[c].time_grid))])
    /\ UNCHANGED <<shared_model, simVars, swVars, calVars, fnVars, apiVars, radfVars>>

\* the caller has taken the result; it may call again
CallEnds(c) ==
    /\ calls[c].pc \in {"done", "raised"}
    /\ calls' = StepOf(c, IdleCall)
    /\ UNCHANGED <<shared_model, simVars, swVars, calVars, fnVars, apiVars, radfVars>>

ConcInit ==
    /\ shared_model = NoValue
    /\ calls = [c \in CallIds |-> IdleCall]

ConcNext ==
    \/ BuildModel
    \/ \E c \in CallIds :
         \/ CallZcb(c)
         \/ CallOption(c)
         \/ CallSwaption(c)
         \/ SwaptionRoot(c)
         \/ SwaptionTerm(c)
         \/ SwaptionReturn(c)
         \/ CallSimulate(c)
         \/ SimulateStep(c)
         \/ SimulateReturn(c)
         \/ CallEnds(c)

\* model.py lines 165-173 run from iteration k to the end on the arrays p
RECURSIVE EulerLoop(_, _, _, _, _, _)
EulerLoop(locals, sc, shocks, grid, p, k) ==
    IF k >= Len(p) - 1 THEN p
    ELSE EulerLoop(locals, sc, shocks, grid,
                   [p EXCEPT ![k + 2] = EulerRow(locals, sc, grid[k + 1], p[k + 1],
                                                 shocks[k + 1])],
                   k + 1)

\* _simulate_logic run alone on the object m: model.py lines 135-175
simulate_logic(m, sc, shocks) ==
    HW1FSimulationResult(
        EulerLoop(SimLocals(m), sc, shocks,
                  Linspace(sc.time_horizon, NumTimesteps(sc.time_horizon, sc.dt)),
                  InitialPaths(sc, m.initial_zero_coupon_bond_pricer), 0),
        Linspace(sc.time_horizon, NumTimesteps(sc.time_horizon, sc.dt)))

-----------------------------------------------------------------------------
(* Single calls of formulas.B, pricing.price_zcb and                        *)
(* pricing.price_european_option_on_zcb over the whole range of arguments   *)
(* they accept, the edges a = 0, t = T, T = 0 and S = T included.  A        *)
(* behaviour is one call; the functions keep nothing between calls.         *)

\* a float result that is not a number
NaN == [kind |-> "nan", value |-> 0, exc |-> "none"]

FnTimes == {0, QUARTER, HALF, 2 * HALF}

BArgs == {x \in [t : FnTimes, T : FnTimes, a : {0, 500, 1000}] : x.t <= x.T}

\* models with a >= 0 and sigma > 0 over a curve with values in (0, 1]
FnModels ==
    { CalibratedHW1FModel(a, s, generate_theta_function(a, s, p), 0, p) :
        a \in {0, 1000}, s \in {500, 2000}, p \in TotalPricers }

FnZcbArgs ==
    {x \in [t : FnTimes, T : FnTimes, r_t : {-500, 0, 500, 1500},
             calibrated_model : FnModels] : x.t <= x.T}

FnOptionArgs ==
    {x \in [K : {9000, SC, 11000}, T : FnTimes, S : FnTimes,
             calibrated_model : {m \in FnModels : m.a > 0},
             option_type : {"call", "put"}] : x.T <= x.S}

FnAArgs ==
    {x \in [t : FnTimes, T : FnTimes, calibrated_model : {m \in FnModels : m.a > 0}] :
        x.t <= x.T}

\* formulas.py line 39 divides sigma**2 by 4 * a.  With a = 0 the division
\* of Python floats raises ZeroDivisionError; with a a numpy float64 (as
\* result.x of minimize is) it gives inf, and inf * (1 - exp(0)) is nan
PriceZcbOutcomes(t, T, r_t, calibrated) ==
    IF 4 * calibrated.a = 0
    THEN {Raised("ZeroDivisionError"), NaN}
    ELSE {Returned(price_zcb(t, T, r_t, calibrated))}

\* pricing.py lines 44-49 with sigma_p = 0.0: the operands of line 44 are
\* numpy float64, so x / 0.0 is inf with the sign of x and 0.0 / 0.0 is nan;
\* norm.cdf is 1 at inf, 0 at -inf and nan at nan
OptionAtZeroSigmaP(K, P0S, P0T, option_type) ==
    IF Ln(Div(P0S, Mul(P0T, K))) = 0 THEN NaN
    ELSE IF Ln(Div(P0S, Mul(P0T, K))) > 0
    THEN Returned(IF option_type = "call" THEN P0S - Mul(K, P0T) ELSE 0)
    ELSE Returned(IF option_type = "call" THEN 0 ELSE Mul(K, P0T) - P0S)

\* pricing.py lines 33-52 for option_type "call" or "put" and a # 0
OptionOutcome(K, T, S, calibrated, option_type) ==
    IF OptionSigmaP(T, S, calibrated.a, calibrated.sigma) = 0
    THEN OptionAtZeroSigmaP(K, P0(calibrated.initial_zero_coupon_bond_pricer, S),
                            P0(calibrated.initial_zero_coupon_bond_pricer, T),
                            option_type)
    ELSE Returned(price_european_option_on_zcb(K, T, S, calibrated, option_type))

\* formulas.py lines 5-9
EvalB ==
    /\ fn_call = NoValue
    /\ \E x \in BArgs :
         /\ fn_call' = [op |-> "B", args |-> x]
         /\ fn_outcome' = Returned(B(x.t, x.T, x.a))
         /\ fn_pricer_calls' = {}
         /\ fn_trace' = <<>>
    /\ UNCHANGED <<simVars, swVars, calVars, concVars, apiVars, radfVars>>

\* pricing.py lines 8-16
EvalPriceZcb ==
    /\ fn_call = NoValue
    /\ \E x \in FnZcbArgs :
         /\ fn_call' = [op |-> "price_zcb", args |-> x]
         /\ fn_outcome' \in PriceZcbOutcomes(x.t, x.T, x.r_t, x.calibrated_model)
         /\ fn_pricer_calls' = ZcbPoints(x.t, x.T)
         /\ fn_trace' = <<>>
    /\ UNCHANGED <<simVars, swVars, calVars, concVars, apiVars, radfVars>>

\* pricing.py lines 19-52
EvalOption ==
    /\ fn_call = NoValue
    /\ \E x \in FnOptionArgs :
         /\ fn_call' = [op |-> "price_european_option_on_zcb", args |-> x]
         /\ fn_outcome' = OptionOutcome(x.K, x.T, x.S, x.calibrated_model,
                                        x.option_type)
         /\ fn_pricer_calls' = {x.S, x.T}
         /\ fn_trace' = <<>>
    /\ UNCHANGED <<simVars, swVars, calVars, concVars, apiVars, radfVars>>

\* formulas.py lines 24-40, a # 0
EvalA ==
    /\ fn_call = NoValue
    /\ \E x \in FnAArgs :
         /\ fn_call' = [op |-> "A", args |-> x]
         /\ fn_outcome' = Returned(A(x.t, x.T, x.calibrated_model))
         /\ fn_pricer_calls' = ZcbPoints(x.t, x.T)
         /\ fn_trace' = <<>>
    /\ UNCHANGED <<simVars, swVars, calVars, concVars, apiVars, radfVars>>

FnRateArgs ==
    [t_val : {0, eps, 2 * eps, QUARTER, HALF, 2 * HALF}, p0_pricer : TotalPricers]

FnThetaArgs ==
    [t : {0, eps, 2 * eps, QUARTER, HALF, 2 * HALF},
     calibrated_model : {m \in FnModels : m.a > 0}]

\* formulas.py lines 12-21
EvalForwardRate ==
    /\ fn_call = NoValue
    /\ \E x \in FnRateArgs :
         /\ fn_call' = [op |-> "instantaneous_forward_rate", args |-> x]
         /\ fn_outcome' = Returned(instantaneous_forward_rate(x.t_val, x.p0_pricer))
         /\ fn_pricer_calls' = ForwardRatePoints(x.t_val)
         /\ fn_trace' = <<>>
    /\ UNCHANGED <<simVars, swVars, calVars, concVars, apiVars, radfVars>>

\* formulas.py lines 55-58: a call of the closure that generate_theta_function
\* returned, as line 169 of model.py makes it
EvalTheta ==
    /\ fn_call = NoValue
    /\ \E x \in FnThetaArgs :
         /\ fn_call' = [op |-> "theta", args |-> x]
         /\ fn_outcome' = Returned(theta(x.calibrated_model.theta_function, x.t))
         /\ fn_pricer_calls' = ThetaPoints(x.t)
         /\ fn_trace' = <<>>
    /\ UNCHANGED <<simVars, swVars, calVars, concVars, apiVars, radfVars>>

FnObjectiveArgs ==
    [params : CandidatePoints, pricer : TotalPricers,
     market_swaptions : SeqsUpTo(Quotes, MaxSwaptions)]

\* model.py lines 89-102: the pricing calls the loop makes from the k-th quote
\* on; an exception of a call ends the loop
RECURSIVE PricingTrace(_, _, _)
PricingTrace(quotes, temp_model, k) ==
    IF k > Len(quotes) THEN <<>>
    ELSE <<[ev |-> "price_european_swaption", arg |-> QuoteCall(quotes[k], temp_model)]>>
         \o (IF price_european_swaption(QuoteCall(quotes[k], temp_model)).kind = "raise"
              THEN <<>>
              ELSE PricingTrace(quotes, temp_model, k + 1))

\* a variant that generates the theta function before it tests the parameters
ObjectiveTraceThetaFirst(params, pricer, quotes) ==
    <<[ev |-> "generate_theta_function", arg |-> <<params.a, params.sigma, pricer>>]>>
    \o (IF params.a <= 0 \/ params.sigma <= 0 THEN <<>>
         ELSE <<[ev |-> "CalibratedHW1FModel", arg |-> TempCalibratedModel(params, pricer)]>>
              \o PricingTrace(quotes, TempCalibratedModel(params, pricer), 1))

\* model.py lines 70-103: what one evaluation of the objective constructs and
\* calls, in order
ObjectiveTrace(params, pricer, quotes) ==
    IF params.a <= 0 \/ params.sigma <= 0 THEN <<>>
    ELSE <<[ev |-> "generate_theta_function", arg |-> <<params.a, params.sigma, pricer>>],
           [ev |-> "CalibratedHW1FModel", arg |-> TempCalibratedModel(params, pricer)]>>
         \o PricingTrace(quotes, TempCalibratedModel(params, pricer), 1)

\* the outcome of a call from the value objective_function gives
ObjectiveOutcome(f) == IF f.exc = "none" THEN Returned(f.value) ELSE Raised(f.exc)

\* model.py lines 70-103, called as minimize calls it but at any point
EvalObjective ==
    /\ fn_call = NoValue
    /\ \E x \in FnObjectiveArgs :
         /\ fn_call' = [op |-> "objective_function", args |-> x]
         /\ fn_outcome' = ObjectiveOutcome(
                              objective_function(x.params, x.pricer, x.market_swaptions))
         /\ fn_pricer_calls' = {}
         /\ fn_trace' = ObjectiveTrace(x.params, x.pricer, x.market_swaptions)
    /\ UNCHANGED <<simVars, swVars, calVars, concVars, apiVars, radfVars>>

FnInit ==
    /\ fn_call = NoValue
    /\ fn_outcome = NoValue
    /\ fn_pricer_calls = {}
    /\ fn_trace = <<>>

FnNext ==
    \/ EvalB
    \/ EvalPriceZcb
    \/ EvalOption
    \/ EvalA
    \/ EvalForwardRate
    \/ EvalTheta
    \/ EvalObjective

-----------------------------------------------------------------------------
(* api-gateway/src/main.py: run_hull_white_one_factor.  The endpoint        *)
(* simulates and returns the time grid and a preview of the paths.  What    *)
(* the preview keeps depends on the shape of the array only, so the rates   *)
(* are stood for by the position they have in the simulated array.          *)

\* main.py line 327: the preview size
PreviewLimit == 10

ApiRequests ==
    [num_paths : 1..MaxApiPaths,
     time_horizon : {h * QUARTER : h \in 0..MaxApiSteps},
     dt : {QUARTER}]

\* the entry of row r, column c of a simulated array (1-based)
RateAt(r, c) == [timestep |-> r - 1, path |-> c - 1]

\* model.simulate (model.py lines 177-246) returns what _simulate_logic built:
\* paths of shape (num_timesteps, num_paths) and the time grid
SimulatedResult(req) ==
    HW1FSimulationResult(
        [r \in 1..NumTimesteps(req.time_horizon, req.dt) |->
            [c \in 1..req.num_paths |-> RateAt(r, c)]],
        Linspace(req.time_horizon, NumTimesteps(req.time_horizon, req.dt)))

\* main.py lines 326-328: `if len(paths) > 10: paths = paths[:10]` on the list
\* of rows that result.paths.tolist() gives
Preview(paths_list) ==
    IF Len(paths_list) > PreviewLimit
    THEN SubSeq(paths_list, 1, PreviewLimit)
    ELSE paths_list

\* main.py lines 316-323
ApiSimulate ==
    /\ apiPc = "idle"
    /\ \E req \in ApiRequests :
         /\ api_req' = req
         /\ api_result' = SimulatedResult(req)
    /\ apiPc' = "simulated"
    /\ UNCHANGED <<api_response, simVars, swVars, calVars, concVars, fnVars, radfVars>>

\* main.py lines 324-329
ApiRespond ==
    /\ apiPc = "simulated"
    /\ api_response' = [time_grid |-> api_result.time_grid,
                        paths |-> Preview(api_result.paths)]
    /\ apiPc' = "responded"
    /\ UNCHANGED <<api_req, api_result, simVars, swVars, calVars, concVars, fnVars, radfVars>>

ApiInit ==
    /\ apiPc = "idle"
    /\ api_req = NoValue
    /\ api_result = NoValue
    /\ api_response = NoValue

ApiNext == ApiSimulate \/ ApiRespond

-----------------------------------------------------------------------------
\* ---------------------------------------------------------------
\* RADF aggregation orchestrator
\* src/repositories/aggregation-engine/src/orchestrator.py, with the
\* config and aggregation modules it imports
\* (src/independent-modules/aggregation-engine/src/config.py, aggregation.py)
\* ---------------------------------------------------------------

\* longest "models" list of a scenario file
MaxModels == 3

\* longest "models" list in the specification with fairness
MaxLiveModels == 2

ModelNames == {"ir", "equity"}

\* the value of a model's "dependencies" key: a list of names, or None
\* (a YAML key with no value loads as None)
DependencyValues ==
    {[is_list |-> TRUE, items |-> <<>>],
     [is_list |-> TRUE, items |-> <<"ir">>],
     [is_list |-> TRUE, items |-> <<"equity">>],
     [is_list |-> FALSE, items |-> <<>>]}

\* how the "depends_on" keys of a models list are filled: the key is
\* absent, every model names the next one, or the last names the first too
DependsOnPatterns == {"absent", "chain", "ring"}

\* the model at place k of a list of n: ids are the places
ModelConfig(k, n, name, dependencies, pattern) ==
    IF pattern = "absent"
    THEN [id |-> k, name |-> name, params |-> NoValue,
          dependencies |-> dependencies]
    ELSE [id |-> k, name |-> name, params |-> NoValue,
          dependencies |-> dependencies,
          depends_on |-> IF k < n THEN <<k + 1>>
                         ELSE IF pattern = "ring" THEN <<1>> ELSE <<>>]

ModelList(n, nm, dp, pattern) ==
    [k \in 1..n |-> ModelConfig(k, n, nm[k], dp[k], pattern)]

\* aggregation.py lines 306-315
AGGREGATION_METHODS ==
    {"sum", "VaR", "ES", "gaussian_copula", "t_copula", "archimedean_copula",
     "scenario_based", "stress", "tail_risk", "correlation"}

AggregationConfigs == [method : {"sum", "median"}, models : {<<>>}]

MissingFile == [missing |-> TRUE]

\* what the file at config_path may hold when load_config reads it: it
\* is missing, it lacks the scenario_name key, or it is a whole scenario
FileKinds(n) == IF n = 0 THEN {"missing", "incomplete", "scenario"} ELSE {"scenario"}

ConfigFile(kind, models, aggregation) ==
    IF kind = "missing" THEN MissingFile
    ELSE IF kind = "incomplete"
         THEN [models |-> models, aggregation |-> aggregation]
         ELSE [scenario_name |-> "base", models |-> models,
               aggregation |-> aggregation]

\* config.py lines 10-28: None when the file is missing, else its content
load_config(file) == IF file = MissingFile THEN NoValue ELSE file

\* config.py lines 31-38
ValidateRequiredFields(config) ==
    {"scenario_name", "models", "aggregation"} \subseteq DOMAIN config

ModelIds(models) == {models[k].id : k \in 1..Len(models)}

\* config.py lines 41-73
ValidateModels(models) ==
    /\ \A k \in 1..Len(models) : {"id", "name", "params"} \subseteq DOMAIN models[k]
    /\ \A k, l \in 1..Len(models) : models[k].id = models[l].id => k = l

\* config.py lines 76-101
ValidateAggregation(agg, model_ids) ==
    /\ {"method", "models"} \subseteq DOMAIN agg
    /\ \A k \in 1..Len(agg.models) : agg.models[k] \in model_ids

\* the ids a model's depends_on list names (none without the key)
DependsOn(models, model_id) ==
    UNION { {models[k].depends_on[l] : l \in 1..Len(models[k].depends_on)} :
            k \in {m \in 1..Len(models) :
                     /\ models[m].id = model_id
                     /\ "depends_on" \in DOMAIN models[m]} }

\* the ids reached from the set "from" in at most n depends_on steps
RECURSIVE ReachedIds(_, _, _)
ReachedIds(models, from, n) ==
    IF n = 0 THEN from
    ELSE ReachedIds(models,
                    from \cup UNION {DependsOn(models, d) : d \in from},
                    n - 1)

\* config.py lines 133-162: True when the depth-first search from every
\* id never meets an id that is still on its recursion stack, that is
\* when no id reaches itself
CheckDependencyCycles(models) ==
    \A id \in ModelIds(models) :
        id \notin ReachedIds(models, DependsOn(models, id), Len(models))

\* config.py lines 104-130
ValidateDependencies(models, model_ids) ==
    /\ \A k \in 1..Len(models) :
         "depends_on" \in DOMAIN models[k] =>
            \A l \in 1..Len(models[k].depends_on) :
               /\ models[k].depends_on[l] \in model_ids
               /\ models[k].depends_on[l] # models[k].id
    /\ CheckDependencyCycles(models)

\* config.py lines 174-204
validate_config(config) ==
    /\ config # NoValue
    /\ ValidateRequiredFields(config)
    /\ ValidateModels(config.models)
    /\ ValidateAggregation(config.aggregation, ModelIds(config.models))
    /\ ValidateDependencies(config.models, ModelIds(config.models))

\* orchestrator.py lines 51-63: the event appended to audit_log; status
\* is "success" unless the caller passes one. Of the details only the
\* "status" entry of radf_run_complete is modelled; timestamp and user
\* are not
LogAuditEvent(log, event_type, details, status) ==
    Append(log, [event_type |-> event_type, details |-> details,
                 status |-> status])

\* the keys of dependency_graph in insertion order: a dict keeps a key at
\* the place of its first assignment
RECURSIVE GraphKeys(_, _)
GraphKeys(models, n) ==
    IF n = 0 THEN <<>>
    ELSE IF \E l \in 1..(n - 1) : models[l].name = models[n].name
         THEN GraphKeys(models, n - 1)
         ELSE Append(GraphKeys(models, n - 1), models[n].name)

LastWithName(models, name) ==
    CHOOSE k \in 1..Len(models) :
        /\ models[k].name = name
        /\ \A l \in (k + 1)..Len(models) : models[l].name # name

\* orchestrator.py lines 154-158: a later model of the same name
\* overwrites the dependencies of an earlier one
DependencyGraph(models) ==
    [keys |-> GraphKeys(models, Len(models)),
     deps |-> [name \in {models[k].name : k \in 1..Len(models)} |->
                 models[LastWithName(models, name)].dependencies]]

\* orchestrator.py line 123: next(m for m in models_config if
\* m.get("name") == model_name), the first model of that name
FirstWithName(models, name) ==
    CHOOSE k \in 1..Len(models) :
        /\ models[k].name = name
        /\ \A l \in 1..(k - 1) : models[l].name # name

radfLocals == <<dependency_graph, visited, execution_order, visit_stack,
                radf_cursor, executed_models>>

\* RADFOrchestrator.run, line 351
RadfRun ==
    /\ radfPc = "idle"
    /\ audit_log' = LogAuditEvent(audit_log, "radf_run_start", NoValue, "success")
    /\ radfPc' = "load_config"
    /\ UNCHANGED <<radf_config, radf_stages, radf_raised, radfLocals,
                   simVars, swVars, calVars, concVars, fnVars, apiVars>>

\* a run() that notes the failed load and goes on to the next stage
LoadedConfigContinues(loaded) ==
    /\ radf_config' = loaded
    /\ audit_log' = LogAuditEvent(
            LogAuditEvent(audit_log, "config_load", NoValue, "success"),
            "config_load", NoValue, IF loaded = NoValue THEN "error" ELSE "success")
    /\ radf_raised' = IF loaded = NoValue THEN "ConfigError" ELSE radf_raised
    /\ radfPc' = "validate_config"

\* RADFOrchestrator.load_config lines 69-81, for what config.load_config
\* returned
LoadedConfig(loaded) ==
    /\ radf_config' = loaded
    /\ IF loaded = NoValue
       THEN /\ audit_log' = LogAuditEvent(
                   LogAuditEvent(audit_log, "config_load", NoValue, "success"),
                   "config_load", NoValue, "error")
            /\ radf_raised' = "ConfigError"
            /\ radfPc' = "except"
       ELSE /\ audit_log' = LogAuditEvent(
                   LogAuditEvent(audit_log, "config_load", NoValue, "success"),
                   "config_load", NoValue, "success")
            /\ radf_raised' = radf_raised
            /\ radfPc' = "validate_config"

\* run line 356, RADFOrchestrator.load_config lines 65-81
LoadConfigOf(max_models) ==
    /\ radfPc = "load_config"
    /\ radf_stages' = Append(radf_stages, "load_config")
    /\ \E n \in 0..max_models :
       \E nm \in [1..n -> ModelNames], dp \in [1..n -> DependencyValues],
          pattern \in DependsOnPatterns, agg \in AggregationConfigs,
          kind \in FileKinds(n) :
         LoadedConfig(load_config(ConfigFile(kind, ModelList(n, nm, dp, pattern), agg)))
    /\ UNCHANGED <<radfLocals,
                   simVars, swVars, calVars, concVars, fnVars, apiVars>>

RadfLoadConfig == LoadConfigOf(MaxModels)

\* the same step over the shorter lists of the fair specification
RadfLoadSmallConfig == LoadConfigOf(MaxLiveModels)

\* run line 357, RADFOrchestrator.validate_config lines 83-109
RadfValidateConfig ==
    /\ radfPc = "validate_config"
    /\ radf_stages' = Append(radf_stages, "validate_config")
    /\ IF ~validate_config(radf_config)
       THEN /\ audit_log' = LogAuditEvent(
                   LogAuditEvent(audit_log, "config_validation", NoValue, "success"),
                   "config_validation", NoValue, "error")
            /\ radf_raised' = "ConfigError"
            /\ radfPc' = "except"
       ELSE /\ audit_log' = LogAuditEvent(
                   LogAuditEvent(audit_log, "config_validation", NoValue, "success"),
                   "config_validation", NoValue, "success")
            /\ radf_raised' = radf_raised
            /\ radfPc' = "execute_models"
    /\ UNCHANGED <<radf_config, radfLocals,
                   simVars, swVars, calVars, concVars, fnVars, apiVars>>

\* run line 360, _execute_models lines 113-120 and the start of
\* _resolve_dependencies, lines 154-162
RadfExecuteModels ==
    /\ radfPc = "execute_models"
    /\ radf_stages' = Append(radf_stages, "_execute_models")
    /\ audit_log' = LogAuditEvent(audit_log, "model_execution", NoValue, "success")
    /\ dependency_graph' = DependencyGraph(radf_config.models)
    /\ execution_order' = <<>>
    /\ visited' = {}
    /\ visit_stack' = <<>>
    /\ radf_cursor' = 1
    /\ executed_models' = <<>>
    /\ radfPc' = "resolve"
    /\ UNCHANGED <<radf_config, radf_raised,
                   simVars, swVars, calVars, concVars, fnVars, apiVars>>

\* _resolve_dependencies lines 177-178 with the head of visit, 164-167
RadfVisitModel ==
    /\ radfPc = "resolve"
    /\ visit_stack = <<>>
    /\ radf_cursor <= Len(dependency_graph.keys)
    /\ IF dependency_graph.keys[radf_cursor] \in visited
       THEN UNCHANGED <<visited, visit_stack>>
       ELSE /\ visited' = visited \cup {dependency_graph.keys[radf_cursor]}
            /\ visit_stack' =
                 <<[model_name |-> dependency_graph.keys[radf_cursor], dep |-> 1]>>
    /\ radf_cursor' = radf_cursor + 1
    /\ UNCHANGED <<radfPc, radf_config, audit_log, radf_stages, radf_raised,
                   dependency_graph, execution_order, executed_models,
                   simVars, swVars, calVars, concVars, fnVars, apiVars>>

TopFrame == visit_stack[Len(visit_stack)]

TopDependencies == dependency_graph.deps[TopFrame.model_name]

PopFrame == SubSeq(visit_stack, 1, Len(visit_stack) - 1)

\* visit lines 170-172: one turn of the loop over the dependencies; a
\* dependency is visited when it is a key of the graph, and the visit
\* returns at once when it was visited before (lines 165-166)
RadfVisitDependency ==
    /\ radfPc = "resolve"
    /\ visit_stack # <<>>
    /\ TopDependencies.is_list
    /\ TopFrame.dep <= Len(TopDependencies.items)
    /\ LET dep == TopDependencies.items[TopFrame.dep]
           advanced == Append(PopFrame, [TopFrame EXCEPT !.dep = @ + 1])
       IN IF dep \in DOMAIN dependency_graph.deps /\ dep \notin visited
          THEN /\ visited' = visited \cup {dep}
               /\ visit_stack' = Append(advanced, [model_name |-> dep, dep |-> 1])
          ELSE /\ visit_stack' = advanced
               /\ UNCHANGED visited
    /\ UNCHANGED <<radfPc, radf_config, audit_log, radf_stages, radf_raised,
                   dependency_graph, execution_order, radf_cursor,
                   executed_models,
                   simVars, swVars, calVars, concVars, fnVars, apiVars>>

\* visit line 174, after the loop over the dependencies
RadfVisitReturn ==
    /\ radfPc = "resolve"
    /\ visit_stack # <<>>
    /\ TopDependencies.is_list
    /\ TopFrame.dep > Len(TopDependencies.items)
    /\ execution_order' = Append(execution_order, TopFrame.model_name)
    /\ visit_stack' = PopFrame
    /\ UNCHANGED <<radfPc, radf_config, audit_log, radf_stages, radf_raised,
                   dependency_graph, visited, radf_cursor, executed_models,
                   simVars, swVars, calVars, concVars, fnVars, apiVars>>

\* visit line 170 over a "dependencies" value of None: the TypeError
\* leaves _resolve_dependencies and is caught at lines 147-149
RadfVisitRaises ==
    /\ radfPc = "resolve"
    /\ visit_stack # <<>>
    /\ ~TopDependencies.is_list
    /\ audit_log' = LogAuditEvent(audit_log, "model_execution", NoValue, "error")
    /\ radf_raised' = "ModelExecutionError"
    /\ radfPc' = "except"
    /\ UNCHANGED <<radf_config, radf_stages, radfLocals,
                   simVars, swVars, calVars, concVars, fnVars, apiVars>>

\* _resolve_dependencies line 180, back in _execute_models at line 122
RadfResolveReturn ==
    /\ radfPc = "resolve"
    /\ visit_stack = <<>>
    /\ radf_cursor > Len(dependency_graph.keys)
    /\ radf_cursor' = 1
    /\ radfPc' = "execute"
    /\ UNCHANGED <<radf_config, audit_log, radf_stages, radf_raised,
                   dependency_graph, visited, execution_order, visit_stack,
                   executed_models,
                   simVars, swVars, calVars, concVars, fnVars, apiVars>>

\* _execute_models lines 122-131: one turn of the loop over
\* execution_order; _execute_single_model (lines 182-212) returns a
\* result for every model type
RadfExecuteModel ==
    /\ radfPc = "execute"
    /\ radf_cursor <= Len(execution_order)
    /\ LET model_name == execution_order[radf_cursor]
           models == radf_config.models
       IN IF \E k \in 1..Len(models) : models[k].name = model_name
          THEN /\ executed_models' =
                    Append(executed_models,
                           [model_name |-> model_name,
                            id |-> models[FirstWithName(models, model_name)].id])
               /\ audit_log' = LogAuditEvent(audit_log,
                                             "model_execution_success", NoValue, "success")
          ELSE UNCHANGED <<executed_models, audit_log>>
    /\ radf_cursor' = radf_cursor + 1
    /\ UNCHANGED <<radfPc, radf_config, radf_stages, radf_raised,
                   dependency_graph, visited, execution_order, visit_stack,
                   simVars, swVars, calVars, concVars, fnVars, apiVars>>

\* _execute_models lines 140-145, run line 361
RadfExecuteModelsReturn ==
    /\ radfPc = "execute"
    /\ radf_cursor > Len(execution_order)
    /\ audit_log' = LogAuditEvent(audit_log, "model_execution", NoValue, "success")
    /\ radfPc' = "aggregation"
    /\ UNCHANGED <<radf_config, radf_stages, radf_raised, radfLocals,
                   simVars, swVars, calVars, concVars, fnVars, apiVars>>

\* run line 364, _perform_aggregation lines 284-320; aggregate
\* (aggregation.py lines 27-34) raises ValueError for a method that is
\* not registered
RadfPerformAggregation ==
    /\ radfPc = "aggregation"
    /\ radf_stages' = Append(radf_stages, "_perform_aggregation")
    /\ IF radf_config.aggregation.method \notin AGGREGATION_METHODS
       THEN /\ audit_log' = LogAuditEvent(
                   LogAuditEvent(audit_log, "aggregation", NoValue, "success"),
                   "aggregation", NoValue, "error")
            /\ radf_raised' = "AggregationError"
            /\ radfPc' = "except"
       ELSE /\ audit_log' = LogAuditEvent(
                   LogAuditEvent(audit_log, "aggregation", NoValue, "success"),
                   "aggregation", NoValue, "success")
            /\ radf_raised' = radf_raised
            /\ radfPc' = "complete"
    /\ UNCHANGED <<radf_config, radfLocals,
                   simVars, swVars, calVars, concVars, fnVars, apiVars>>

\* run lines 366-369
RadfComplete ==
    /\ radfPc = "complete"
    /\ audit_log' = LogAuditEvent(audit_log, "radf_run_complete", [status |-> "success"], "success")
    /\ radfPc' = "finally"
    /\ UNCHANGED <<radf_config, radf_stages, radf_raised, radfLocals,
                   simVars, swVars, calVars, concVars, fnVars, apiVars>>

\* an except clause that re-raises without an audit event
RadfExceptSilent ==
    /\ radfPc = "except"
    /\ radfPc' = "finally"
    /\ UNCHANGED <<audit_log, radf_config, radf_stages, radf_raised, radfLocals,
                   simVars, swVars, calVars, concVars, fnVars, apiVars>>

\* run lines 371-378: the three stage errors are RADFError subclasses
RadfExcept ==
    /\ radfPc = "except"
    /\ audit_log' = LogAuditEvent(audit_log, "radf_run_complete", [status |-> "error"], "success")
    /\ radfPc' = "finally"
    /\ UNCHANGED <<radf_config, radf_stages, radf_raised, radfLocals,
                   simVars, swVars, calVars, concVars, fnVars, apiVars>>

\* run lines 387-390; the exception caught at 371 is re-raised (line 378)
\* once the finally block has run
RadfFinally ==
    /\ radfPc = "finally"
    /\ audit_log' = LogAuditEvent(audit_log, "radf_run_end", NoValue, "success")
    /\ radfPc' = IF radf_raised = "none" THEN "returned" ELSE "raised"
    /\ UNCHANGED <<radf_config, radf_stages, radf_raised, radfLocals,
                   simVars, swVars, calVars, concVars, fnVars, apiVars>>

\* RADFOrchestrator.__init__, lines 37-42
RadfInit ==
    /\ radfPc = "idle"
    /\ radf_config = NoValue
    /\ audit_log = <<>>
    /\ radf_stages = <<>>
    /\ radf_raised = "none"
    /\ dependency_graph = NoValue
    /\ visited = {}
    /\ execution_order = <<>>
    /\ visit_stack = <<>>
    /\ radf_cursor = 0
    /\ executed_models = <<>>

RadfAfterLoad ==
    \/ RadfValidateConfig
    \/ RadfExecuteModels
    \/ RadfVisitModel
    \/ RadfVisitDependency
    \/ RadfVisitReturn
    \/ RadfVisitRaises
    \/ RadfResolveReturn
    \/ RadfExecuteModel
    \/ RadfExecuteModelsReturn
    \/ RadfPerformAggregation
    \/ RadfComplete
    \/ RadfExcept
    \/ RadfFinally

RadfNext == RadfRun \/ RadfLoadConfig \/ RadfAfterLoad

RadfLiveNext == RadfRun \/ RadfLoadSmallConfig \/ RadfAfterLoad

Init == SimInit /\ SwInit /\ CalInit /\ ConcInit /\ FnInit /\ ApiInit /\ RadfInit

SimNext == Simulate \/ SimStep \/ SimRaise \/ SimReturn

SimSpec == Init /\ [][SimNext]_vars

SwaptionSpec == Init /\ [][SwNext]_vars

CalibrationSpec == Init /\ [][CalNext]_vars

ConcurrentSpec == Init /\ [][ConcNext]_vars

FunctionSpec == Init /\ [][FnNext]_vars

ApiSpec == Init /\ [][ApiNext]_vars

RadfSpec == Init /\ [][RadfNext]_vars

\* run() is one sequential call: the interpreter keeps taking its next step
RadfLiveSpec == Init /\ [][RadfLiveNext]_vars /\ WF_vars(RadfLiveNext)

\* one call at a time, of any entry point
Next ==
    \/ (swPc = "idle" /\ calPc = "idle" /\ SimNext)
    \/ (simPc = "idle" /\ calPc = "idle" /\ SwNext)
    \/ (simPc = "idle" /\ swPc = "idle" /\ CalNext)
    \/ (simPc = "idle" /\ swPc = "idle" /\ calPc = "idle" /\ ConcNext)
    \/ (simPc = "idle" /\ swPc = "idle" /\ calPc = "idle" /\ FnNext)
    \/ (simPc = "idle" /\ swPc = "idle" /\ calPc = "idle" /\ ApiNext)
    \/ (simPc = "idle" /\ swPc = "idle" /\ calPc = "idle" /\ RadfNext)

Spec == Init /\ [][Next]_vars

-----------------------------------------------------------------------------
(* Properties of _simulate_logic, checked under SimSpec *)

\* C2: in the returned result every entry of row 0 of paths equals
\* r0 = instantaneous_forward_rate(1e-5, pricer), and no iteration of the loop
\* assigns row 0, whatever the scenario and the shocks are.
C2_PathSeeding ==
    /\ 0 \notin simWrites
    /\ simPc = "done" =>
          /\ r0 = instantaneous_forward_rate(
                     eps, calibrated_model.initial_zero_coupon_bond_pricer)
          /\ \A j \in 1..scenario_definition.num_paths : simResult.paths[1][j] = r0

\* a finished simulation of three rows whose shocks moved the later rows
C2_Witness ==
    /\ simPc = "done"
    /\ simWrites = {1, 2}
    /\ scenario_definition.num_paths = 2
    /\ simResult.paths[1] = <<r0, r0>>
    /\ simResult.paths[2] # simResult.paths[1]
    /\ simResult.paths[3] # simResult.paths[2]

\* C3: num_timesteps is floor(time_horizon / dt) + 1, and the returned paths
\* has num_timesteps rows of num_paths entries and time_grid num_timesteps
\* entries.
C3_ResultShape ==
    simPc = "done" =>
      /\ num_timesteps
           = (scenario_definition.time_horizon \div scenario_definition.dt) + 1
      /\ Len(simResult.paths) = num_timesteps
      /\ \A k \in 1..Len(simResult.paths) :
            Len(simResult.paths[k]) = scenario_definition.num_paths
      /\ Len(simResult.time_grid) = num_timesteps

\* a finished simulation whose horizon is not a multiple of dt
C3_Witness ==
    /\ simPc = "done"
    /\ scenario_definition.time_horizon % scenario_definition.dt # 0
    /\ scenario_definition.time_horizon > scenario_definition.dt
    /\ scenario_definition.num_paths = 2
    /\ Len(simResult.paths) = 2
    /\ Len(simResult.time_grid) = 2

-----------------------------------------------------------------------------
(* Properties of price_european_swaption, checked under SwaptionSpec *)

\* C4: whenever tenor_end <= expiry the call returns exactly 0.0, whatever the
\* swap rate, tenor_start, fixed_frequency, model and option_type are; stated
\* for the calls whose option_type is valid and whose curve pricer never
\* raises, so that nothing but the degenerate tenor decides the outcome.
C4_Degeneracy ==
    ( /\ swPc \in {"done", "raised"}
      /\ swaption.tenor_end <= swaption.expiry
      /\ swaption.option_type \in {"payer", "receiver"}
      /\ swaption.calibrated_model.initial_zero_coupon_bond_pricer.exc = "none" )
      => swOutcome = Returned(0)

\* tenor_end = expiry = 1.0, tenor_start = 0.5, fixed_frequency = 1.0: the grid
\* of line 78 runs past tenor_end to 1.5 and the payer is priced above zero
C4_Overshoot ==
    /\ swPc = "done"
    /\ swaption.tenor_end = 2 * HALF
    /\ swaption.expiry = 2 * HALF
    /\ swaption.tenor_start = HALF
    /\ swaption.fixed_frequency = 2 * HALF
    /\ swaption.option_type = "payer"
    /\ payment_dates = <<3 * HALF>>
    /\ swOutcome.kind = "return"
    /\ swOutcome.value > 0

\* C8: a call whose option_type is neither "payer" nor "receiver" raises and
\* never returns a price, whatever the other arguments are.
C8_InvalidOptionTypeRaises ==
    swPc \in {"done", "raised"} /\ swaption.option_type \notin {"payer", "receiver"}
      => swOutcome.kind = "raise"

\* an invalid option_type that returned 0 because no payment follows expiry
C8_ReturnedNoDates ==
    /\ swPc = "done"
    /\ swaption.option_type = "straddle"
    /\ Len(payment_dates) = 0
    /\ swOutcome = Returned(0)

\* C9: with payment dates after expiry and a pricer that answers, when
\* swap_pv_at_expiry has the same strict sign at -0.5 and at 0.5 the call
\* returns 0 and raises nothing; and the critical rate the loop takes its
\* strikes from lies in [-0.5, 0.5] and was found under a sign change.
C9_RootFindingRecoverable ==
    /\ ( /\ swPc \in {"done", "raised"}
         /\ Len(payment_dates) > 0
         /\ SwapPvRaises(swaption, payment_dates) = "none"
         /\ Sgn(swap_pv_at_expiry(swaption, payment_dates, BracketLo))
              * Sgn(swap_pv_at_expiry(swaption, payment_dates, BracketHi)) > 0 )
        => swOutcome = Returned(0)
    /\ swPc = "loop" =>
          /\ BracketLo <= r_star /\ r_star <= BracketHi
          /\ Sgn(swap_pv_at_expiry(swaption, payment_dates, BracketLo))
               * Sgn(swap_pv_at_expiry(swaption, payment_dates, BracketHi)) <= 0

\* a call that returned 0 from the except clause because brentq found no
\* sign change
C9_WitnessNoSignChange ==
    /\ swPc = "done"
    /\ Len(payment_dates) > 0
    /\ swInside = "brentq"
    /\ Sgn(swap_pv_at_expiry(swaption, payment_dates, BracketLo))
         * Sgn(swap_pv_at_expiry(swaption, payment_dates, BracketHi)) > 0
    /\ swOutcome = Returned(0)

\* C10: a failure raised while the swaption is priced, other than brentq's
\* "no sign change", reaches the caller: when the curve pricer raises inside
\* swap_pv_at_expiry the call raises and returns no price.
C10_ErrorsPropagate ==
    ( /\ swPc \in {"done", "raised"}
      /\ Len(payment_dates) > 0
      /\ SwapPvRaises(swaption, payment_dates) # "none" )
      => swOutcome.kind = "raise"

\* the pricer raised ValueError during root-finding and the call returned 0
C10_PricerErrorSwallowed ==
    /\ swPc = "done"
    /\ swInside = "pricer"
    /\ SwapPvRaises(swaption, payment_dates) = "ValueError"
    /\ swOutcome = Returned(0)

-----------------------------------------------------------------------------
(* Properties of calibration, checked under CalibrationSpec *)

\* C5: whenever minimize reports success = False, _calibrate_logic returns no
\* model and raises an error whose message carries result.message, and what
\* the caller of calibrate or _calibrate_logic gets is that very error.
C5_FailureRaises ==
    /\ ( /\ calPc \in {"done", "raised"}
         /\ result # NoValue
         /\ ~result.success )
        => /\ calPc = "raised"
           /\ calOutcome.kind = "raise"
           /\ calOutcome.exc = "RuntimeError"
           /\ calOutcome.model = NoValue
           /\ calOutcome.message = <<"Calibration failed: ", result.message>>
    /\ callerOutcome # NoValue => callerOutcome = calOutcome

\* the caller holds the error of a failed optimization against two quotes
C5_Witness ==
    /\ entry = "_calibrate_logic"
    /\ Len(market_swaptions) = 2
    /\ result # NoValue
    /\ ~result.success
    /\ result.message = "ABNORMAL_TERMINATION_IN_LNSRCH"
    /\ callerOutcome # NoValue
    /\ callerOutcome.kind = "raise"
    /\ callerOutcome.message = <<"Calibration failed: ", "ABNORMAL_TERMINATION_IN_LNSRCH">>

\* C6: whenever minimize reports success, the returned model has a and sigma
\* equal to result.x, calibration_error equal to result.fun, a theta function
\* generated from exactly result.x and the pricer passed in, and that very
\* pricer as initial_zero_coupon_bond_pricer.
C6_SuccessFields ==
    ( /\ calPc \in {"done", "raised"}
      /\ result # NoValue
      /\ result.success )
      => /\ calPc = "done"
         /\ calOutcome.kind = "return"
         /\ calOutcome.model.a = result.x.a
         /\ calOutcome.model.sigma = result.x.sigma
         /\ calOutcome.model.calibration_error = result.fun
         /\ calOutcome.model.theta_function
              = [a |-> result.x.a, sigma |-> result.x.sigma,
                 pricer |-> initial_zero_coupon_bond_pricer]
         /\ calOutcome.model.initial_zero_coupon_bond_pricer
              = initial_zero_coupon_bond_pricer

\* a successful calibration against two quotes whose fitted point is not the
\* initial guess and whose residual is not zero
C6_Witness ==
    /\ calPc = "done"
    /\ Len(market_swaptions) = 2
    /\ result.success
    /\ result.x # initial_guess
    /\ result.fun > 0
    /\ callerOutcome # NoValue
    /\ callerOutcome.kind = "return"
    /\ callerOutcome.model.a = result.x.a
    /\ callerOutcome.model.calibration_error = result.fun

-----------------------------------------------------------------------------
(* C11: no pricing call (price_zcb, price_european_option_on_zcb,           *)
(* price_european_swaption) and no simulation call writes a field of the    *)
(* CalibratedHW1FModel: once the object is built, every step of every call  *)
(* leaves a, sigma, theta_function, calibration_error and                   *)
(* initial_zero_coupon_bond_pricer as they were.                            *)
C11_ModelNeverWritten ==
    [][shared_model # NoValue => shared_model' = shared_model]_vars

\* a swaption call and a simulation call have both run to their end on the object
C11_Witness ==
    /\ shared_model \in SharedModels
    /\ \E c, d \in CallIds :
         /\ calls[c].op = "price_european_swaption" /\ calls[c].pc = "done"
         /\ calls[c].idx = 2
         /\ calls[d].op = "_simulate_logic" /\ calls[d].pc = "done"

\* what the call c returns or raises when it runs alone on the object as it
\* was when the call began
RunAlone(call) ==
    IF call.op = "price_zcb"
    THEN Returned(price_zcb(call.args.t, call.args.T, call.args.r_t, call.at_entry))
    ELSE IF call.op = "price_european_option_on_zcb"
    THEN Returned(price_european_option_on_zcb(call.args.K, call.args.T, call.args.S,
                                               call.at_entry, call.args.option_type))
    ELSE IF call.op = "price_european_swaption"
    THEN price_european_swaption(WithModel(call.args, call.at_entry))
    ELSE Returned(simulate_logic(call.at_entry, call.args.scenario_definition,
                                 call.args.correlated_shocks))

(* C12: pricing and simulation calls may run concurrently on one shared     *)
(* CalibratedHW1FModel with shocks supplied by each caller: in every        *)
(* interleaving each call ends with the result it has when it runs alone.   *)
C12_SameResultAsAlone ==
    [][\A c \in CallIds :
         (calls[c].pc \notin {"done", "raised"} /\ calls'[c].pc \in {"done", "raised"})
            => calls'[c].outcome = RunAlone(calls'[c])]_vars

\* a swaption call between its two loop terms and a simulation call between
\* its two Euler steps, both running on the object at once
C12_Witness ==
    \E c, d \in CallIds :
        /\ calls[c].op = "price_european_swaption" /\ calls[c].pc = "loop"
        /\ calls[c].idx = 1 /\ calls[c].acc > 0
        /\ calls[d].op = "_simulate_logic" /\ calls[d].pc = "simloop"
        /\ calls[d].idx = 1
        /\ calls[d].paths[2] # calls[d].paths[1]


-----------------------------------------------------------------------------
\* the theta function of m is the one generated from m's own a, sigma and pricer
ThetaIsOwn(m) ==
    m.theta_function =
        generate_theta_function(m.a, m.sigma, m.initial_zero_coupon_bond_pricer)

(* C13: every CalibratedHW1FModel that calibration constructs, the         *)
(* temporary model of each evaluation of the objective and the model it    *)
(* returns, carries the theta function generated from exactly that model's *)
(* a, sigma and initial curve pricer.                                      *)
C13_ThetaConsistency ==
    /\ \A k \in 1..Len(evals) :
         evals[k].model # NoValue =>
            /\ ThetaIsOwn(evals[k].model)
            /\ evals[k].model.a = evals[k].x.a
            /\ evals[k].model.sigma = evals[k].x.sigma
            /\ evals[k].model.initial_zero_coupon_bond_pricer =
                   initial_zero_coupon_bond_pricer
    /\ (calOutcome # NoValue /\ calOutcome.kind = "return") =>
            ThetaIsOwn(calOutcome.model)

\* two evaluations at different points, and the model of the second returned
C13_Witness ==
    /\ Len(evals) = 2
    /\ evals[2].x # evals[1].x
    /\ evals[2].model # NoValue
    /\ calOutcome # NoValue /\ calOutcome.kind = "return"
    /\ calOutcome.model.a = evals[2].x.a
    /\ calOutcome.model.sigma = evals[2].x.sigma

-----------------------------------------------------------------------------
(* C14: price_zcb(t, T, r_t, model) is a strictly positive finite number    *)
(* for every finite r_t, every 0 <= t <= T and every model with a >= 0,     *)
(* sigma > 0 and a pricer with values in (0, 1].                            *)
C14_PriceZcbPositive ==
    (fn_call # NoValue /\ fn_call.op = "price_zcb") =>
        (fn_outcome.kind = "return" /\ fn_outcome.value > 0)

\* a call with a = 0: it raises ZeroDivisionError or returns nan
C14_ZeroMeanReversion ==
    /\ fn_call # NoValue /\ fn_call.op = "price_zcb"
    /\ fn_call.args.calibrated_model.a = 0
    /\ fn_call.args.calibrated_model.sigma > 0
    /\ fn_call.args.t <= fn_call.args.T
    /\ fn_outcome.kind \in {"raise", "nan"}

-----------------------------------------------------------------------------
(* C15: price_european_option_on_zcb returns a number that is never         *)
(* negative and never undefined, for K > 0, T >= 0, S >= T and both option  *)
(* types, the boundaries T = 0 and S = T, where sigma_p is 0, included.     *)
C15_OptionNonNegative ==
    (fn_call # NoValue /\ fn_call.op = "price_european_option_on_zcb") =>
        (fn_outcome.kind = "return" /\ fn_outcome.value >= 0)

\* strike 1.0 on a bond that matures at the expiry: the call returns nan
C15_NanAtTheBoundary ==
    /\ fn_call # NoValue /\ fn_call.op = "price_european_option_on_zcb"
    /\ fn_call.args.K = SC
    /\ fn_call.args.S = fn_call.args.T
    /\ fn_call.args.T > 0
    /\ fn_outcome.kind = "nan"

-----------------------------------------------------------------------------
(* C16: price_european_swaption returns a value >= 0 for every input with   *)
(* a valid option_type, whatever the swap_rate, on each of its return       *)
(* paths: no payment date, no root in the bracket, the decomposition.       *)
C16_SwaptionNonNegative ==
    (/\ swOutcome # NoValue
     /\ swOutcome.kind = "return"
     /\ swaption.option_type \in {"payer", "receiver"})
    => swOutcome.value >= 0

\* a negative swap rate: the decomposition returns a negative price
C16_NegativeSwapRate ==
    /\ swOutcome # NoValue
    /\ swOutcome.kind = "return"
    /\ swaption.option_type = "receiver"
    /\ swaption.swap_rate < 0
    /\ swaption.expiry = HALF /\ swaption.tenor_start = HALF
    /\ swaption.tenor_end = 3 * HALF /\ swaption.fixed_frequency = HALF
    /\ swaption.calibrated_model.initial_zero_coupon_bond_pricer.exc = "none"
    /\ date_idx = 2
    /\ swOutcome.value < 0

-----------------------------------------------------------------------------
(* C17: B(T, T, a) = 0 for every T and every a > 0, and B(t, T, 0) is       *)
(* exactly T - t.                                                           *)
C17_BBoundaryValues ==
    (fn_call # NoValue /\ fn_call.op = "B") =>
        /\ (fn_call.args.a > 0 /\ fn_call.args.t = fn_call.args.T)
              => fn_outcome = Returned(0)
        /\ fn_call.args.a = 0
              => fn_outcome = Returned(Years(fn_call.args.T - fn_call.args.t))

\* B(0.5, 1.0, 0) has returned 0.5
C17_Witness ==
    /\ fn_call # NoValue /\ fn_call.op = "B"
    /\ fn_call.args.a = 0
    /\ fn_call.args.t = HALF /\ fn_call.args.T = 2 * HALF
    /\ fn_outcome = Returned(SC \div 2)

\* B(1.0, 1.0, 0.1) has returned 0
C17_WitnessEqualTimes ==
    /\ fn_call # NoValue /\ fn_call.op = "B"
    /\ fn_call.args.a = 1000
    /\ fn_call.args.t = 2 * HALF /\ fn_call.args.T = 2 * HALF
    /\ fn_outcome = Returned(0)

-----------------------------------------------------------------------------
\* paths[i, j] + (theta(time_grid[i]) - a * paths[i, j]) * dt
\*             + sigma * sqrt(dt) * shocks[i, j], from the state before the step
EulerUpdate(j) ==
    paths[i + 1][j]
    + Mul(theta(calibrated_model.theta_function, time_grid[i + 1])
          - Mul(calibrated_model.a, paths[i + 1][j]),
          Years(scenario_definition.dt))
    + Mul(Mul(calibrated_model.sigma, Sqrt(Years(scenario_definition.dt))),
          correlated_shocks[i + 1][j])

(* C18: the Euler recursion takes the steps i = 0 .. num_timesteps - 2 in   *)
(* increasing order, each once.  Step i reads row i of paths, row i of the  *)
(* shocks and time_grid[i], and writes row i + 1 only, as                   *)
(* paths[i,j] + (theta(time_grid[i]) - a paths[i,j]) dt                     *)
(*            + sigma sqrt(dt) shocks[i,j];                                 *)
(* rows 0 .. i are not modified afterwards and a negative value is kept as  *)
(* it is.  The call returns only after step num_timesteps - 2.             *)
C18_EulerOrder ==
    [][simPc = "loop" =>
         /\ (paths' # paths \/ i' # i) =>
               /\ i' = i + 1
               /\ i <= num_timesteps - 2
               /\ \A k \in 1..Len(paths) : k # i + 2 => paths'[k] = paths[k]
               /\ \A j \in 1..scenario_definition.num_paths :
                      paths'[i + 2][j] = EulerUpdate(j)
         /\ simPc' = "done" =>
               /\ i = num_timesteps - 1
               /\ simResult'.paths = paths]_vars

\* three steps have run and a rate below zero stands in the returned paths
C18_Witness ==
    /\ simPc = "done"
    /\ i = 3
    /\ simWrites = {1, 2, 3}
    /\ \E j \in 1..scenario_definition.num_paths : simResult.paths[3][j] < 0

-----------------------------------------------------------------------------
(* C19: for tenor_start <= tenor_end and fixed_frequency > 0 every payment  *)
(* date the call uses is tenor_start + k * fixed_frequency for an integer   *)
(* k >= 0, lies in [tenor_start, tenor_end] and is later than expiry: no    *)
(* date beyond tenor_end is priced; with no date left the call returns 0    *)
(* and searches no root.                                                    *)
C19_DatesWithinTenor ==
    (swPc # "idle" /\ swaption.tenor_start <= swaption.tenor_end) =>
        /\ \A k \in 1..Len(payment_dates) :
              /\ payment_dates[k] >= swaption.tenor_start
              /\ (payment_dates[k] - swaption.tenor_start)
                    % swaption.fixed_frequency = 0
              /\ payment_dates[k] > swaption.expiry
              /\ payment_dates[k] <= swaption.tenor_end
        /\ (Len(payment_dates) = 0 /\ swPc \in {"done", "raised"}) =>
              (swOutcome = Returned(0) /\ swInside = "none")

\* tenor 0.5 .. 2.0 with annual payments: the dates are 0.5, 1.5, 2.5, and the
\* bond maturing at 2.5, after tenor_end, is priced in the decomposition
C19_DateBeyondTenorEnd ==
    /\ swPc = "done"
    /\ swaption.tenor_start = HALF /\ swaption.tenor_end = 4 * HALF
    /\ swaption.fixed_frequency = 2 * HALF /\ swaption.expiry = HALF
    /\ swaption.option_type = "payer" /\ swaption.swap_rate = 500
    /\ payment_dates = <<3 * HALF, 5 * HALF>>
    /\ date_idx = 2
    /\ swOutcome.kind = "return"

-----------------------------------------------------------------------------
\* fixed_frequency * swap_rate * option(K_k, expiry, t_k, model, zcb_option_type)
\* for the k-th retained date t_k, K_k = price_zcb(expiry, t_k, r*, model)
JamshidianTerm(k, zcb_option_type) ==
    Mul(Mul(Years(swaption.fixed_frequency), swaption.swap_rate),
        price_european_option_on_zcb(
            price_zcb(swaption.expiry, payment_dates[k], r_star,
                      swaption.calibrated_model),
            swaption.expiry, payment_dates[k], swaption.calibrated_model,
            zcb_option_type))

\* the terms of the first k retained dates, one per date
RECURSIVE JamshidianSum(_, _)
JamshidianSum(k, zcb_option_type) ==
    IF k = 0 THEN 0
    ELSE JamshidianSum(k - 1, zcb_option_type) + JamshidianTerm(k, zcb_option_type)

(* C20: Jamshidian decomposition.  When a critical rate r* is found, the    *)
(* payer price is the sum over the retained payment dates t_i of            *)
(* fixed_frequency * swap_rate * price_european_option_on_zcb(K_i, expiry,  *)
(* t_i, model, "call") with K_i = price_zcb(expiry, t_i, r*, model); the    *)
(* receiver price is the same sum with "put".  Each retained date gives     *)
(* exactly one term.                                                        *)
C20_JamshidianDecomposition ==
    /\ (swPc = "loop" /\ swaption.option_type = "payer")
          => swaption_price = JamshidianSum(date_idx, "call")
    /\ (swPc = "loop" /\ swaption.option_type = "receiver")
          => swaption_price = JamshidianSum(date_idx, "put")
    /\ (swPc = "done" /\ swInside = "none" /\ Len(payment_dates) > 0) =>
          /\ date_idx = Len(payment_dates)
          /\ swaption.option_type = "payer"
                => swOutcome = Returned(JamshidianSum(Len(payment_dates), "call"))
          /\ swaption.option_type = "receiver"
                => swOutcome = Returned(JamshidianSum(Len(payment_dates), "put"))

\* a payer over three retained dates, each with a positive term
C20_Witness ==
    /\ swPc = "done" /\ swInside = "none"
    /\ swaption.option_type = "payer"
    /\ swaption.swap_rate > 0
    /\ Len(payment_dates) = 3
    /\ \A k \in 1..3 : JamshidianTerm(k, "call") > 0
    /\ swOutcome.kind = "return"
    /\ swOutcome.value = JamshidianTerm(1, "call") + JamshidianTerm(2, "call")
                           + JamshidianTerm(3, "call")
    /\ swOutcome.value # JamshidianSum(3, "put")

-----------------------------------------------------------------------------
\* (P(0,T)/P(0,t)) exp(B f(0,t) - (sigma^2/(4a)) (1 - e^(-2at)) B^2) for the
\* arguments of the call, B being B(t, T, a)
AWithBSquared(x) ==
    Mul(Div(P0(x.calibrated_model.initial_zero_coupon_bond_pricer, x.T),
            P0(x.calibrated_model.initial_zero_coupon_bond_pricer, x.t)),
        Exp(Mul(B(x.t, x.T, x.calibrated_model.a),
                instantaneous_forward_rate(
                    x.t, x.calibrated_model.initial_zero_coupon_bond_pricer))
            - Mul(Mul(Div(Mul(x.calibrated_model.sigma, x.calibrated_model.sigma),
                          4 * x.calibrated_model.a),
                      SC - Exp(Mul(-2 * x.calibrated_model.a, Years(x.t)))),
                  Mul(B(x.t, x.T, x.calibrated_model.a),
                      B(x.t, x.T, x.calibrated_model.a)))))

(* C21: A(t, T, model) = (P(0,T)/P(0,t)) * exp(B(t,T) f(0,t)               *)
(* - (sigma^2/(4a)) (1 - e^(-2at)) B(t,T)^2) for every 0 <= t <= T and     *)
(* a > 0: the variance correction is multiplied by the square of B(t,T).   *)
C21_VarianceTermUsesBSquared ==
    (fn_call # NoValue /\ fn_call.op = "A") =>
        fn_outcome = Returned(AWithBSquared(fn_call.args))

\* A(0.5, 1.0) with a = 0.1, sigma = 0.2: the value returned is the one with
\* B to the first power, below the one with B squared
C21_FirstPowerOfB ==
    /\ fn_call # NoValue /\ fn_call.op = "A"
    /\ fn_call.args.t = HALF /\ fn_call.args.T = 2 * HALF
    /\ fn_call.args.calibrated_model.a = 1000
    /\ fn_call.args.calibrated_model.sigma = 2000
    /\ fn_outcome.kind = "return"
    /\ fn_outcome.value < AWithBSquared(fn_call.args)

-----------------------------------------------------------------------------
(* C22: for every trial point with a <= 0 or sigma <= 0 the calibration     *)
(* objective returns +infinity at once: it generates no theta function,     *)
(* builds no temporary model and prices no swaption.                        *)
C22_InfeasibleTrial ==
    (/\ fn_call # NoValue /\ fn_call.op = "objective_function"
     /\ (fn_call.args.params.a <= 0 \/ fn_call.args.params.sigma <= 0))
    => (fn_outcome = Returned(Inf) /\ fn_trace = <<>>)

\* the objective was called with a = 0.1, sigma = 0 and two quotes
C22_Witness ==
    /\ fn_call # NoValue /\ fn_call.op = "objective_function"
    /\ fn_call.args.params.a = 1000 /\ fn_call.args.params.sigma = 0
    /\ Len(fn_call.args.market_swaptions) = 2
    /\ fn_outcome = Returned(Inf)

-----------------------------------------------------------------------------
\* the price of the k-th market swaption under the model m
QuotePrice(quotes, m, k) ==
    price_european_swaption(
        [swap_rate |-> quotes[k].swap_rate, expiry |-> quotes[k].expiry,
         tenor_start |-> quotes[k].tenor_start, tenor_end |-> quotes[k].tenor_end,
         fixed_frequency |-> quotes[k].fixed_frequency, calibrated_model |-> m,
         option_type |-> IF "option_type" \in DOMAIN quotes[k]
                         THEN quotes[k].option_type ELSE "payer"]).value

\* sum over the first k swaptions of (model_price - market_price)^2
RECURSIVE SumOfSquares(_, _, _)
SumOfSquares(quotes, m, k) ==
    IF k = 0 THEN 0
    ELSE SumOfSquares(quotes, m, k - 1)
         + (QuotePrice(quotes, m, k) - quotes[k].market_price)
           * (QuotePrice(quotes, m, k) - quotes[k].market_price)

(* C23: for every feasible trial (a > 0, sigma > 0) the objective builds    *)
(* one temporary model, prices each market swaption exactly once, in list   *)
(* order, against that model, and returns the sum over the swaptions of     *)
(* (model_price - market_price)^2; for an empty list it returns 0.          *)
C23_ObjectiveAccumulation ==
    (/\ fn_call # NoValue /\ fn_call.op = "objective_function"
     /\ fn_call.args.params.a > 0 /\ fn_call.args.params.sigma > 0
     /\ fn_outcome.kind = "return")
    => /\ Len(fn_trace) = 2 + Len(fn_call.args.market_swaptions)
       /\ fn_trace[1].ev = "generate_theta_function"
       /\ fn_trace[2].ev = "CalibratedHW1FModel"
       /\ fn_trace[2].arg.a = fn_call.args.params.a
       /\ fn_trace[2].arg.sigma = fn_call.args.params.sigma
       /\ \A k \in 1..Len(fn_call.args.market_swaptions) :
             /\ fn_trace[2 + k].ev = "price_european_swaption"
             /\ fn_trace[2 + k].arg.calibrated_model = fn_trace[2].arg
             /\ fn_trace[2 + k].arg.swap_rate = fn_call.args.market_swaptions[k].swap_rate
             /\ fn_trace[2 + k].arg.expiry = fn_call.args.market_swaptions[k].expiry
             /\ fn_trace[2 + k].arg.tenor_start
                   = fn_call.args.market_swaptions[k].tenor_start
             /\ fn_trace[2 + k].arg.tenor_end
                   = fn_call.args.market_swaptions[k].tenor_end
       /\ fn_outcome.value = SumOfSquares(fn_call.args.market_swaptions,
                                          fn_trace[2].arg,
                                          Len(fn_call.args.market_swaptions))
       /\ Len(fn_call.args.market_swaptions) = 0 => fn_outcome.value = 0

\* two different quotes priced at a feasible point, each with an error
C23_Witness ==
    /\ fn_call # NoValue /\ fn_call.op = "objective_function"
    /\ fn_call.args.params.a = 1000 /\ fn_call.args.params.sigma = 2000
    /\ Len(fn_call.args.market_swaptions) = 2
    /\ fn_call.args.market_swaptions[1] # fn_call.args.market_swaptions[2]
    /\ fn_outcome.kind = "return"
    /\ Len(fn_trace) = 4
    /\ SumOfSquares(fn_call.args.market_swaptions, fn_trace[2].arg, 1) > 0
    /\ fn_outcome.value > SumOfSquares(fn_call.args.market_swaptions, fn_trace[2].arg, 1)

-----------------------------------------------------------------------------
(* C24: for every t >= 0, instantaneous_forward_rate(t, pricer) evaluates   *)
(* the pricer only at maturities >= 0: at t and t + eps when t < eps, at    *)
(* t - eps and t + eps when t >= eps, eps being 1e-5.                       *)
C24_ForwardRateGuard ==
    (fn_call # NoValue /\ fn_call.op = "instantaneous_forward_rate") =>
        /\ \A maturity \in fn_pricer_calls : maturity >= 0
        /\ fn_call.args.t_val < eps
              => fn_pricer_calls = {fn_call.args.t_val, fn_call.args.t_val + eps}
        /\ fn_call.args.t_val >= eps
              => fn_pricer_calls = {fn_call.args.t_val - eps, fn_call.args.t_val + eps}

\* the forward rate at t = 0: the pricer was evaluated at 0 and at eps
C24_Witness ==
    /\ fn_call # NoValue /\ fn_call.op = "instantaneous_forward_rate"
    /\ fn_call.args.t_val = 0
    /\ fn_pricer_calls = {0, eps}
    /\ fn_outcome.kind = "return"

(* C25: for every t >= 0, t = 0 included (the time of the first simulation   *)
(* step), evaluating the theta function that generate_theta_function        *)
(* returned calls the initial curve pricer only at maturities >= 0.         *)
C25_ThetaDomain ==
    (fn_call # NoValue /\ fn_call.op = "theta" /\ fn_call.args.t >= 0) =>
        \A maturity \in fn_pricer_calls : maturity >= 0

\* theta(0): the pricer was evaluated at -eps
C25_NegativeMaturity ==
    /\ fn_call # NoValue /\ fn_call.op = "theta"
    /\ fn_call.args.t = 0
    /\ -eps \in fn_pricer_calls
    /\ fn_outcome.kind = "return"

-----------------------------------------------------------------------------
(* C26: for every scenario, a horizon that is not a whole multiple of dt    *)
(* included, time_grid[i] = i * dt for every i in 0 .. num_timesteps - 1:   *)
(* step i evaluates theta at the time reached after i steps of size dt.     *)
C26_GridMatchesDt ==
    simPc # "idle" =>
        /\ Len(time_grid) = num_timesteps
        /\ \A k \in 1..num_timesteps :
              time_grid[k] = (k - 1) * scenario_definition.dt

\* horizon 0.75 with dt 0.5: two grid points, 0 and 0.75, and one Euler step
\* of size 0.5 taken
C26_GridStretched ==
    /\ simPc = "done"
    /\ scenario_definition.time_horizon = 3 * QUARTER
    /\ scenario_definition.dt = 2 * QUARTER
    /\ num_timesteps = 2
    /\ simResult.time_grid = <<0, 3 * QUARTER>>
    /\ i = 1

-----------------------------------------------------------------------------
\* the smaller of two numbers
Smaller(x, y) == IF x < y THEN x ELSE y

(* C27: when the simulation has more than 10 paths the response of          *)
(* /run/hull_white_one_factor holds the first 10 paths only, each with a    *)
(* value for every time step: the returned paths have one row per entry of  *)
(* the returned time_grid; with 10 paths or fewer nothing is removed.       *)
C27_PreviewOfPaths ==
    apiPc = "responded" =>
        /\ api_response.time_grid = api_result.time_grid
        /\ Len(api_response.paths) = Len(api_response.time_grid)
        /\ \A r \in 1..Len(api_response.paths) :
              /\ Len(api_response.paths[r]) = Smaller(api_req.num_paths, 10)
              /\ \A c \in 1..Len(api_response.paths[r]) :
                    api_response.paths[r][c] = RateAt(r, c)

\* 11 paths over 11 time steps: the response has 10 rows of 11 entries each
\* beside a time_grid of 11 entries
C27_TimeStepsCut ==
    /\ apiPc = "responded"
    /\ api_req.num_paths = 11
    /\ Len(api_result.time_grid) = 11
    /\ Len(api_response.time_grid) = 11
    /\ Len(api_response.paths) = 10
    /\ \A r \in 1..10 : Len(api_response.paths[r]) = 11

-----------------------------------------------------------------------------
(* RADF stage order *)

StageOrder ==
    <<"load_config", "validate_config", "_execute_models", "_perform_aggregation">>

\* the exception each stage method raises (lines 81, 109, 149, 320)
StageError ==
    [load_config |-> "ConfigError", validate_config |-> "ConfigError",
     _execute_models |-> "ModelExecutionError",
     _perform_aggregation |-> "AggregationError"]

IsPrefix(s, t) == Len(s) <= Len(t) /\ s = SubSeq(t, 1, Len(s))

RunOver == radfPc \in {"returned", "raised"}

\* a step that calls a stage method: the earlier stages were called in
\* order and none of them raised
StageStarts ==
    radf_stages' # radf_stages =>
        /\ radf_raised = "none"
        /\ Len(radf_stages) < Len(StageOrder)
        /\ radf_stages' = Append(radf_stages, StageOrder[Len(radf_stages) + 1])

\* a step that catches an exception: it is the first one, and it is the
\* error of the stage that was called last
StageFails ==
    radf_raised' # radf_raised =>
        /\ radf_raised = "none"
        /\ radf_stages' # <<>>
        /\ radf_raised' = StageError[radf_stages'[Len(radf_stages')]]

\* C28: in every run() the stages are called in the order load_config,
\* validate_config, _execute_models, _perform_aggregation; a stage is
\* called only when every earlier stage has finished without raising;
\* the first stage failure ends the run with that exception raised to
\* the caller and no later stage called; a run without a failure
\* returns after all four stages.
C28_StageOrder ==
    /\ [][StageStarts /\ StageFails]_vars
    /\ [](radfPc = "raised" => radf_raised # "none")
    /\ [](radfPc = "returned" => radf_raised = "none" /\ radf_stages = StageOrder)
    /\ (radf_raised # "none") ~> (radfPc = "raised")
    /\ (radfPc = "load_config") ~> RunOver

\* a run that failed in its third stage and raised to the caller
C28_Witness ==
    /\ radfPc = "raised"
    /\ radf_raised = "ModelExecutionError"
    /\ radf_stages = SubSeq(StageOrder, 1, 3)

-----------------------------------------------------------------------------
(* RADF audit trail *)

EventsOfType(log, event_type) ==
    {k \in 1..Len(log) : log[k].event_type = event_type}

\* the audit log of a finished run: one radf_run_complete event, whose
\* status tells how the run ended, and after it radf_run_end as the last
\* event
TrailClosed ==
    /\ Cardinality(EventsOfType(audit_log, "radf_run_complete")) = 1
    /\ \A k \in EventsOfType(audit_log, "radf_run_complete") :
         /\ k < Len(audit_log)
         /\ audit_log[k].details.status =
              IF radfPc = "raised" THEN "error" ELSE "success"
    /\ EventsOfType(audit_log, "radf_run_end") = {Len(audit_log)}

\* C29: in every run(), successful or failed, the audit log only grows
\* (events are appended, none is changed or removed), the first event is
\* radf_run_start, exactly one radf_run_complete event is recorded, and
\* the last event is radf_run_end, recorded after radf_run_complete;
\* every run gets there.
C29_AuditTrail ==
    /\ [][IsPrefix(audit_log, audit_log')]_vars
    /\ [](radfPc # "idle" =>
            /\ EventsOfType(audit_log, "radf_run_start") = {1}
            /\ Cardinality(EventsOfType(audit_log, "radf_run_complete")) <= 1)
    /\ [](RunOver => TrailClosed)
    /\ (radfPc # "idle") ~> (RunOver /\ TrailClosed)

\* a run that failed in its last stage, with its audit log closed
C29_Witness ==
    /\ radfPc = "raised"
    /\ radf_raised = "AggregationError"
    /\ audit_log[Len(audit_log)].event_type = "radf_run_end"
    /\ audit_log[Len(audit_log) - 1].event_type = "radf_run_complete"
    /\ audit_log[Len(audit_log) - 1].details = [status |-> "error"]

-----------------------------------------------------------------------------
(* RADF dependency resolution *)

ConfiguredNames(models) == {models[k].name : k \in 1..Len(models)}

\* the configured models a model configuration depends on
ConfiguredDependencies(models, k) ==
    {models[k].dependencies.items[l] : l \in 1..Len(models[k].dependencies.items)}
        \cap ConfiguredNames(models)

\* the names reached from the set "from" in at most n dependency steps
RECURSIVE ReachedNames(_, _, _)
ReachedNames(models, from, n) ==
    IF n = 0 THEN from
    ELSE ReachedNames(models,
            from \cup UNION {ConfiguredDependencies(models, k) :
                               k \in {m \in 1..Len(models) : models[m].name \in from}},
            n - 1)

\* no model reaches its own name along dependencies
Acyclic(models) ==
    \A k \in 1..Len(models) :
        models[k].name \notin
            ReachedNames(models, ConfiguredDependencies(models, k), Len(models))

Places(order, name) == {p \in 1..Len(order) : order[p] = name}

LongestDependencies ==
    LET lens == {Len(dependency_graph.deps[name].items) :
                    name \in DOMAIN dependency_graph.deps}
    IN IF lens = {} THEN 0 ELSE CHOOSE m \in lens : \A l \in lens : l <= m

\* the dependencies the active calls of visit have not looked at yet
RECURSIVE DependenciesLeft(_)
DependenciesLeft(n) ==
    IF n = 0 THEN 0
    ELSE DependenciesLeft(n - 1)
         + Len(dependency_graph.deps[visit_stack[n].model_name].items) + 1
         - visit_stack[n].dep

\* what _resolve_dependencies still has to do: names to visit for the
\* first time, dependencies to look at, calls to return from, keys to
\* start from
ResolveWork ==
    Cardinality(DOMAIN dependency_graph.deps \ visited) * (LongestDependencies + 2)
    + DependenciesLeft(Len(visit_stack))
    + Len(visit_stack)
    + Len(dependency_graph.keys) + 1 - radf_cursor

\* the order _resolve_dependencies returned holds every configured name once
EachNameOnce ==
    \A name \in ConfiguredNames(radf_config.models) :
        Cardinality(Places(execution_order, name)) = 1

\* in an acyclic configuration every configured dependency of a model
\* stands before the model
DependenciesFirst ==
    Acyclic(radf_config.models) =>
        \A k \in 1..Len(radf_config.models) :
            \A dep \in ConfiguredDependencies(radf_config.models, k) :
                \A p \in Places(execution_order, radf_config.models[k].name) :
                    \E q \in Places(execution_order, dep) : q < p

\* C30: _resolve_dependencies terminates for every list of model
\* configurations, cyclic ones included (every step of it reduces the
\* work left, which is never negative, and it is never stuck); the order
\* it returns holds each configured model name exactly once; in an
\* acyclic configuration every dependency that is a configured model
\* precedes each model depending on it; and _execute_models runs the
\* models in that order.
C30_DependencyOrder ==
    /\ [][radfPc = "resolve" /\ radfPc' = "resolve" => ResolveWork' < ResolveWork]_vars
    /\ [](radfPc = "resolve" => ResolveWork >= 0 /\ ENABLED RadfNext)
    /\ [](radfPc = "execute" => EachNameOnce /\ DependenciesFirst)
    /\ [](radfPc = "aggregation" =>
            /\ Len(executed_models) = Len(execution_order)
            /\ \A p \in 1..Len(execution_order) :
                 executed_models[p].model_name = execution_order[p])

\* all models have run, the configuration is acyclic, and a model
\* configuration ran before a configured model it depends on
C30_DependentRunsFirst ==
    /\ radfPc = "aggregation"
    /\ Acyclic(radf_config.models)
    /\ \E p, q \in 1..Len(executed_models) :
         /\ p < q
         /\ executed_models[q].model_name \in
              ConfiguredDependencies(radf_config.models, executed_models[p].id)

====
